---- MODULE Spec2Model ----
(***************************************************************************)
(* Model of the OpenPilot flight telemetry module                          *)
(* (flight/modules/Telemetry/telemetry.c), built with                      *)
(* PIOS_TELEM_PRIORITY_QUEUE, PIOS_INCLUDE_RFM22B and PIOS_INCLUDE_USB.    *)
(*                                                                         *)
(* The UAVObject manager, the event dispatcher and UAVTalk are not part of *)
(* the modelled sources: they appear as the state they keep for the        *)
(* module (queue connections, periodic timers, link counters) and as       *)
(* nondeterministic results of the calls made into them.                   *)
(***************************************************************************)
EXTENDS Integers, Sequences, FiniteSets, TLC

\* ------------------------------------------------------------------------
\* Program constants (telemetry.c:89-92)
MAX_RETRIES == 2
STATS_UPDATE_PERIOD_MS == 4000
CONNECTION_TIMEOUT_MS == 8000

\* The counters and the millisecond clock are uint32_t. Every value of
\* the model stays far below 2^31, and the clock never runs backwards, so
\* their arithmetic is that of the integers.
UAVOBJ_ALL_INSTANCES == 2 ^ 16 - 1

\* ------------------------------------------------------------------------
\* Bounds of the model
MaxCount == 2        \* cap on the per-period counters txErrors / txRetries
MaxInstances == 2    \* largest number of live instances of an object
OutcomeLen == 3      \* protocol-call results offered to one dispatch
MaxTicks == 4        \* the clock stops advancing after this many ticks
MaxCum == 2          \* cap on the cumulative link counters
MaxQueue == 2        \* queue capacity used for TELEM_QUEUE_SIZE
PeriodTicks == 2     \* update period of the objects, in clock ticks

\* Clock granularity (ms per model tick) and the derived times.
TickMs == STATS_UPDATE_PERIOD_MS
MaxTime == MaxTicks * TickMs
PeriodMs == PeriodTicks * TickMs

\* ------------------------------------------------------------------------
\* Vocabulary of the collaborators
EV_NONE == "EV_NONE"
EV_UPDATED == "EV_UPDATED"
EV_UPDATED_MANUAL == "EV_UPDATED_MANUAL"
EV_UPDATED_PERIODIC == "EV_UPDATED_PERIODIC"
EV_UPDATE_REQ == "EV_UPDATE_REQ"
EV_LOGGING_MANUAL == "EV_LOGGING_MANUAL"
EV_LOGGING_PERIODIC == "EV_LOGGING_PERIODIC"

EventKinds ==
    {EV_UPDATED, EV_UPDATED_MANUAL, EV_UPDATED_PERIODIC, EV_UPDATE_REQ,
     EV_LOGGING_MANUAL, EV_LOGGING_PERIODIC}

EV_MASK_ALL_UPDATES == {EV_UPDATED, EV_UPDATED_MANUAL, EV_UPDATE_REQ}

UPDATEMODE_PERIODIC == "UPDATEMODE_PERIODIC"
UPDATEMODE_ONCHANGE == "UPDATEMODE_ONCHANGE"
UPDATEMODE_THROTTLED == "UPDATEMODE_THROTTLED"
UPDATEMODE_MANUAL == "UPDATEMODE_MANUAL"

UpdateModes ==
    {UPDATEMODE_PERIODIC, UPDATEMODE_ONCHANGE, UPDATEMODE_THROTTLED, UPDATEMODE_MANUAL}

STATUS_DISCONNECTED == "DISCONNECTED"
STATUS_HANDSHAKEREQ == "HANDSHAKEREQ"
STATUS_HANDSHAKEACK == "HANDSHAKEACK"
STATUS_CONNECTED == "CONNECTED"

StatusValues ==
    {STATUS_DISCONNECTED, STATUS_HANDSHAKEREQ, STATUS_HANDSHAKEACK, STATUS_CONNECTED}

\* The two telemetry contexts: telemHandle and radioHandle.
Chans == {"telem", "radio"}
Queues == {"mainQueue", "priorityQueue"}

\* Objects of the registry: one ordinary object, its meta-object, and the
\* GCSTelemetryStats object; NullObj is the null handle of the stats event.
NullObj == "NULL"
DataObj == "DataObj"
MetaObj == "DataObjMeta"
GcsObj == "GCSTelemetryStats"
Objs == {DataObj, MetaObj, GcsObj}

UAVObjIsMetaobject(obj) == obj = MetaObj
UAVObjGetLinkedObj(obj) == IF obj = MetaObj THEN DataObj ELSE obj

\* ------------------------------------------------------------------------
VARIABLES
    now,                     \* xTaskGetTickCount() * portTICK_RATE_MS
    metadata,                \* [Objs -> UAVObjMetadata]
    isPriority,              \* [Objs -> BOOLEAN]: UAVObjIsPriority
    numInstances,            \* [Objs -> Nat]: UAVObjGetNumInstances
    connections,             \* [Chans -> [Objs -> [Queues -> event mask]]]
    timers,                  \* [Chans -> Seq(periodic event entry)]
    queues,                  \* [Chans -> [Queues -> Seq(UAVObjEvent)]]
    asserted,                \* PIOS_Assert(false) was reached
    txErrors,                \* static uint32_t txErrors
    txRetries,               \* static uint32_t txRetries
    timeOfLastObjectUpdate,  \* static uint32_t timeOfLastObjectUpdate
    flightStats,             \* the FlightTelemetryStats object
    gcsStats,                \* Status field of the GCSTelemetryStats object
    utalkStats,              \* [Chans -> UAVTalkStats] of the two connections
    telemetryAlarm,          \* SYSTEMALARMS_ALARM_TELEMETRY is raised
    task,                    \* [Chans -> transmit task position and locals]
    lastDispatch,            \* history: what the last processObjEvent did
    lastEval,                \* history: the last updateTelemetryStats call
    sendLog,                 \* history: times of the change-triggered sends
    txHist,                  \* history: [Chans -> transmit-loop observations]
    ledger,                  \* history: counter increments produced / folded
    phase,                   \* history: throttle phase of the data object
    build,                   \* the PIOS_INCLUDE_* macros of the build
    usbAvailable,            \* PIOS_COM_Available(PIOS_COM_TELEM_USB)
    telemetryPort,           \* [Chans -> port]: telemetryContext.telemetryPort
    rxTask,                  \* [Chans -> receive task position and inputPort]
    outputPort               \* history: the last transmitRadioData call

objVars == <<metadata, isPriority, numInstances>>
subVars == <<connections, timers, asserted>>
cntVars == <<txErrors, txRetries>>
linkVars == <<timeOfLastObjectUpdate, flightStats, telemetryAlarm>>
envVars == <<gcsStats, utalkStats>>
histVars == <<lastDispatch, lastEval, sendLog, txHist, ledger, phase>>
portVars == <<build, usbAvailable, telemetryPort, rxTask, outputPort>>

vars ==
    <<now, objVars, subVars, queues, cntVars, linkVars, envVars, task, histVars,
      portVars>>

\* ------------------------------------------------------------------------
\* Collaborators: event dispatcher and object manager, as far as the module
\* uses them.

\* Variant of TargetQueue that knows the normal queue only.
TargetQueueNormalOnly(obj) == "mainQueue"


\* The queue an object's events and timers are routed to.
TargetQueue(obj) == IF isPriority[obj] THEN "priorityQueue" ELSE "mainQueue"

\* The time an entry of the given period next fires (none when disabled).
Due(period, tnow) == IF period > 0 THEN tnow + period ELSE 0

SameTimer(t, obj, event, queue) ==
    t.obj = obj /\ t.event = event /\ t.queue = queue

\* EventPeriodicQueueUpdate: the matching entry's period is updated in
\* place; -1 when there is none.
EventPeriodicQueueUpdate(tms, obj, event, queue, period, tnow) ==
    IF \E i \in 1..Len(tms) : SameTimer(tms[i], obj, event, queue)
    THEN [ret |-> 0,
          timers |-> [i \in 1..Len(tms) |->
                         IF SameTimer(tms[i], obj, event, queue)
                         THEN [tms[i] EXCEPT !.period = period, !.due = Due(period, tnow)]
                         ELSE tms[i]]]
    ELSE [ret |-> -1, timers |-> tms]

\* EventPeriodicQueueCreate: a new entry is added.
EventPeriodicQueueCreate(tms, obj, event, queue, period, tnow) ==
    Append(tms, [obj |-> obj, event |-> event, queue |-> queue,
                 period |-> period, due |-> Due(period, tnow)])

\* UAVObjConnectQueue: the mask of the object's connection to the queue is
\* replaced.
UAVObjConnectQueue(conn, obj, queue, eventMask) ==
    [conn EXCEPT ![obj][queue] = eventMask]

\* ------------------------------------------------------------------------
\* setUpdatePeriod / setLoggingPeriod (telemetry.c:673-734)

\* Variant of setPeriod that creates an entry on every call.
setPeriodAlwaysCreate(tms, obj, event, updatePeriodMs, tnow) ==
    EventPeriodicQueueCreate(tms, obj, event, TargetQueue(obj), updatePeriodMs, tnow)

setPeriod(tms, obj, event, updatePeriodMs, tnow) ==
    LET r == EventPeriodicQueueUpdate(tms, obj, event, TargetQueue(obj), updatePeriodMs, tnow)
    IN  IF r.ret = -1
        THEN EventPeriodicQueueCreate(tms, obj, event, TargetQueue(obj), updatePeriodMs, tnow)
        ELSE r.timers

setUpdatePeriod(tms, obj, updatePeriodMs, tnow) ==
    setPeriod(tms, obj, EV_UPDATED_PERIODIC, updatePeriodMs, tnow)

setLoggingPeriod(tms, obj, updatePeriodMs, tnow) ==
    setPeriod(tms, obj, EV_LOGGING_PERIODIC, updatePeriodMs, tnow)

\* ------------------------------------------------------------------------
\* updateObject (telemetry.c:324-427)

\* First switch: the telemetry part of the event mask.
TelemetryEventMask(updateMode, eventType) ==
    CASE updateMode = UPDATEMODE_PERIODIC ->
            {EV_UPDATED_PERIODIC, EV_UPDATED_MANUAL, EV_UPDATE_REQ}
      [] updateMode = UPDATEMODE_ONCHANGE ->
            {EV_UPDATED, EV_UPDATED_MANUAL, EV_UPDATE_REQ}
      [] updateMode = UPDATEMODE_THROTTLED ->
            IF eventType = EV_UPDATED_PERIODIC \/ eventType = EV_NONE
            THEN {EV_UPDATED, EV_UPDATED_MANUAL, EV_UPDATE_REQ}
            ELSE {EV_UPDATED_PERIODIC, EV_UPDATED_MANUAL, EV_UPDATE_REQ}
      [] updateMode = UPDATEMODE_MANUAL ->
            {EV_UPDATED_MANUAL, EV_UPDATE_REQ}

\* First switch: the timer calls it makes.
TelemetryTimers(tms, obj, md, eventType, tnow) ==
    CASE md.telemetryUpdateMode = UPDATEMODE_PERIODIC ->
            setUpdatePeriod(tms, obj, md.telemetryUpdatePeriod, tnow)
      [] md.telemetryUpdateMode = UPDATEMODE_ONCHANGE ->
            setUpdatePeriod(tms, obj, 0, tnow)
      [] md.telemetryUpdateMode = UPDATEMODE_THROTTLED ->
            IF eventType = EV_NONE
            THEN setUpdatePeriod(tms, obj, md.telemetryUpdatePeriod, tnow)
            ELSE tms
      [] md.telemetryUpdateMode = UPDATEMODE_MANUAL ->
            setUpdatePeriod(tms, obj, 0, tnow)

\* Second switch: the logging part of the event mask.
LoggingEventMask(loggingMode, eventType) ==
    CASE loggingMode = UPDATEMODE_PERIODIC ->
            {EV_LOGGING_PERIODIC, EV_LOGGING_MANUAL}
      [] loggingMode = UPDATEMODE_ONCHANGE ->
            {EV_UPDATED, EV_LOGGING_MANUAL}
      [] loggingMode = UPDATEMODE_THROTTLED ->
            IF eventType = EV_LOGGING_PERIODIC \/ eventType = EV_NONE
            THEN {EV_UPDATED, EV_LOGGING_MANUAL}
            ELSE {EV_LOGGING_PERIODIC, EV_LOGGING_MANUAL}
      [] loggingMode = UPDATEMODE_MANUAL ->
            {EV_LOGGING_MANUAL}

\* Second switch: the timer calls it makes.
LoggingTimers(tms, obj, md, eventType, tnow) ==
    CASE md.loggingUpdateMode = UPDATEMODE_PERIODIC ->
            setLoggingPeriod(tms, obj, md.loggingUpdatePeriod, tnow)
      [] md.loggingUpdateMode = UPDATEMODE_ONCHANGE ->
            setLoggingPeriod(tms, obj, 0, tnow)
      [] md.loggingUpdateMode = UPDATEMODE_THROTTLED ->
            IF eventType = EV_NONE
            THEN setLoggingPeriod(tms, obj, md.loggingUpdatePeriod, tnow)
            ELSE tms
      [] md.loggingUpdateMode = UPDATEMODE_MANUAL ->
            setLoggingPeriod(tms, obj, 0, tnow)

\* The whole function, on the subscription state st of one channel:
\* st = [connections, timers, asserted, reconciled].
updateObject(st, obj, md, eventType, tnow) ==
    IF UAVObjIsMetaobject(obj)
    THEN [st EXCEPT !.asserted = TRUE]
    ELSE LET eventMask ==
                 TelemetryEventMask(md.telemetryUpdateMode, eventType)
                     \cup LoggingEventMask(md.loggingUpdateMode, eventType)
             tms1 == TelemetryTimers(st.timers, obj, md, eventType, tnow)
             tms2 == LoggingTimers(tms1, obj, md, eventType, tnow)
         IN  [st EXCEPT
                 !.timers = tms2,
                 !.connections =
                     UAVObjConnectQueue(st.connections, obj, TargetQueue(obj), eventMask),
                 !.reconciled = Append(st.reconciled, <<obj, eventType>>)]

\* ------------------------------------------------------------------------
\* updateTelemetryStats (telemetry.c:756-848)

StatFields == {"txBytes", "rxBytes", "rxObjects", "rxErrors", "rxSyncErrors", "rxCrcErrors"}
ZeroStats == [f \in StatFields |-> 0]

\* UAVTalkGetStats(telem) followed by UAVTalkAddStats(radio).
SumStats(us) == [f \in StatFields |-> us["telem"][f] + us["radio"][f]]

\* bytes / (STATS_UPDATE_PERIOD_MS / 1000.0f), kept exact in 1/1000 byte/s.
DataRate(bytes) == (bytes * 1000 * 1000) \div STATS_UPDATE_PERIOD_MS

\* Variant of FoldCounters that does not add the retries.
FoldCountersNoRetries(fs, us, txE, txR) ==
    IF fs.Status = STATUS_CONNECTED
    THEN [fs EXCEPT
             !.TxDataRate = DataRate(us.txBytes),
             !.TxBytes = @ + us.txBytes,
             !.TxFailures = @ + txE,
             !.RxDataRate = DataRate(us.rxBytes),
             !.RxBytes = @ + us.rxBytes,
             !.RxFailures = @ + us.rxErrors,
             !.RxSyncErrors = @ + us.rxSyncErrors,
             !.RxCrcErrors = @ + us.rxCrcErrors]
    ELSE [fs EXCEPT
             !.TxDataRate = 0, !.TxBytes = 0, !.TxFailures = 0, !.TxRetries = 0,
             !.RxDataRate = 0, !.RxBytes = 0, !.RxFailures = 0,
             !.RxSyncErrors = 0, !.RxCrcErrors = 0]

\* Lines 773-796: the counters of the record, by the status on entry.
FoldCounters(fs, us, txE, txR) ==
    IF fs.Status = STATUS_CONNECTED
    THEN [fs EXCEPT
             !.TxDataRate = DataRate(us.txBytes),
             !.TxBytes = @ + us.txBytes,
             !.TxFailures = @ + txE,
             !.TxRetries = @ + txR,
             !.RxDataRate = DataRate(us.rxBytes),
             !.RxBytes = @ + us.rxBytes,
             !.RxFailures = @ + us.rxErrors,
             !.RxSyncErrors = @ + us.rxSyncErrors,
             !.RxCrcErrors = @ + us.rxCrcErrors]
    ELSE [fs EXCEPT
             !.TxDataRate = 0, !.TxBytes = 0, !.TxFailures = 0, !.TxRetries = 0,
             !.RxDataRate = 0, !.RxBytes = 0, !.RxFailures = 0,
             !.RxSyncErrors = 0, !.RxCrcErrors = 0]

\* Lines 802-804: the time of the last object update.
LastObjectUpdate(us, timeNow, tLast) ==
    IF us.rxObjects > 0 THEN timeNow ELSE tLast

\* Variant of ConnectionTimeout that already times out at the limit.
ConnectionTimeoutAtLimit(timeNow, tLast) ==
    (timeNow - tLast) >= CONNECTION_TIMEOUT_MS

\* Lines 805-809.
ConnectionTimeout(timeNow, tLast) ==
    (timeNow - tLast) > CONNECTION_TIMEOUT_MS

\* Variant of NextStatus that connects without the handshake.
NextStatusNoHandshake(local, peer, connectionTimeout) ==
    IF local = STATUS_DISCONNECTED
    THEN IF peer = STATUS_HANDSHAKEREQ THEN STATUS_HANDSHAKEACK
         ELSE IF peer = STATUS_CONNECTED THEN STATUS_CONNECTED
         ELSE local
    ELSE IF local = STATUS_HANDSHAKEACK
    THEN IF peer = STATUS_CONNECTED THEN STATUS_CONNECTED
         ELSE IF peer = STATUS_DISCONNECTED THEN STATUS_DISCONNECTED
         ELSE local
    ELSE IF local = STATUS_CONNECTED
    THEN IF peer # STATUS_CONNECTED \/ connectionTimeout
         THEN STATUS_DISCONNECTED
         ELSE local
    ELSE STATUS_DISCONNECTED

\* Lines 811-833: the connection state.
NextStatus(local, peer, connectionTimeout) ==
    IF local = STATUS_DISCONNECTED
    THEN IF peer = STATUS_HANDSHAKEREQ THEN STATUS_HANDSHAKEACK ELSE local
    ELSE IF local = STATUS_HANDSHAKEACK
    THEN IF peer = STATUS_CONNECTED THEN STATUS_CONNECTED
         ELSE IF peer = STATUS_DISCONNECTED THEN STATUS_DISCONNECTED
         ELSE local
    ELSE IF local = STATUS_CONNECTED
    THEN IF peer # STATUS_CONNECTED \/ connectionTimeout
         THEN STATUS_DISCONNECTED
         ELSE local
    ELSE STATUS_DISCONNECTED

\* Variant of ForceUpdate that forces the publication every time.
ForceUpdateAlways(local, peer, connectionTimeout) == TRUE

\* Lines 812, 829: forceUpdate.
ForceUpdate(local, peer, connectionTimeout) ==
    ~(local = STATUS_CONNECTED /\ peer = STATUS_CONNECTED /\ ~connectionTimeout)

\* Variant of AlarmsClear that never clears.
AlarmsClearNever(status) == FALSE

\* Lines 837-839: whether the telemetry alarm is cleared.
AlarmsClear(status) == status = STATUS_CONNECTED

\* Lines 800-847, on the local record folded by lines 773-796.
ConnectionUpdate(folded, peer, us, timeNow, tLast) ==
    LET last == LastObjectUpdate(us, timeNow, tLast)
        timeout == ConnectionTimeout(timeNow, last)
        status == NextStatus(folded.Status, peer, timeout)
    IN  [flightStats |-> [folded EXCEPT !.Status = status],
         timeOfLastObjectUpdate |-> last,
         connectionTimeout |-> timeout,
         forceUpdate |-> ForceUpdate(folded.Status, peer, timeout),
         alarmsClear |-> AlarmsClear(status)]

updateTelemetryStats(fs, peer, us, txE, txR, timeNow, tLast) ==
    ConnectionUpdate(FoldCounters(fs, us, txE, txR), peer, us, timeNow, tLast)

\* Variant of gcsTelemetryStatsUpdated that evaluates on every event.
gcsTelemetryStatsUpdatedAlways(local, peer) == TRUE

\* gcsTelemetryStatsUpdated (telemetry.c:741-751): whether it evaluates.
gcsTelemetryStatsUpdated(local, peer) ==
    local # STATUS_CONNECTED \/ peer # STATUS_CONNECTED

\* ------------------------------------------------------------------------
\* processObjEvent (telemetry.c:433-531)

\* Variant of SendCondition that sends on every periodic update.
SendConditionAnyPeriodic(event, updateMode) ==
    \/ event = EV_UPDATED
         /\ (updateMode = UPDATEMODE_ONCHANGE \/ updateMode = UPDATEMODE_THROTTLED)
    \/ event = EV_UPDATED_MANUAL
    \/ event = EV_UPDATED_PERIODIC

\* Lines 454-456: the event asks for a send.
SendCondition(event, updateMode) ==
    \/ event = EV_UPDATED
         /\ (updateMode = UPDATEMODE_ONCHANGE \/ updateMode = UPDATEMODE_THROTTLED)
    \/ event = EV_UPDATED_MANUAL
    \/ event = EV_UPDATED_PERIODIC /\ updateMode # UPDATEMODE_THROTTLED

\* Variant of LogCondition that logs every change.
LogConditionAnyUpdate(event, loggingMode) ==
    \/ event = EV_UPDATED
    \/ event = EV_LOGGING_MANUAL
    \/ event = EV_LOGGING_PERIODIC /\ loggingMode # UPDATEMODE_THROTTLED

\* Variant of LogCondition without the periodic log.
LogConditionNoPeriodic(event, loggingMode) ==
    \/ event = EV_UPDATED
         /\ (loggingMode = UPDATEMODE_ONCHANGE \/ loggingMode = UPDATEMODE_THROTTLED)
    \/ event = EV_LOGGING_MANUAL

\* Lines 511-513: the event asks for a log write.
LogCondition(event, loggingMode) ==
    \/ event = EV_UPDATED
         /\ (loggingMode = UPDATEMODE_ONCHANGE \/ loggingMode = UPDATEMODE_THROTTLED)
    \/ event = EV_LOGGING_MANUAL
    \/ event = EV_LOGGING_PERIODIC /\ loggingMode # UPDATEMODE_THROTTLED

\* Lines 458-467 and 475-484: while (retries < MAX_RETRIES && success == -1).
\* outcomes are the results the protocol call returns, in order.
LoopContinues(retries, success) == retries < MAX_RETRIES /\ success = -1

RECURSIVE RetryLoop(_, _, _, _)
RetryLoop(retries, success, outcomes, calls) ==
    IF LoopContinues(retries, success)
    THEN RetryLoop(IF Head(outcomes) = -1 THEN retries + 1 ELSE retries,
                   Head(outcomes), Tail(outcomes), calls + 1)
    ELSE [retries |-> retries, success |-> success, calls |-> calls]

\* Lines 452-490: the protocol action of the event and its accounting.
OutboundAction(ev, md, outcomes) ==
    LET r == RetryLoop(0, -1, outcomes, 0)
    IN  IF SendCondition(ev.event, md.telemetryUpdateMode)
        THEN [kind |-> "send", acked |-> md.telemetryAcked, retries |-> r.retries,
              success |-> r.success, calls |-> r.calls]
        ELSE IF ev.event = EV_UPDATE_REQ
        THEN [kind |-> "request", acked |-> FALSE, retries |-> r.retries,
              success |-> r.success, calls |-> r.calls]
        ELSE [kind |-> "none", acked |-> FALSE, retries |-> 0, success |-> -1, calls |-> 0]

NoAction ==
    [kind |-> "none", acked |-> FALSE, retries |-> 0, success |-> -1, calls |-> 0]

\* Lines 469-472 and 486-489: the statistics of the action.
RetriesAfter(act, txR) == txR + act.retries
ErrorsAfter(act, txE) ==
    IF act.kind # "none" /\ act.success = -1 THEN txE + 1 ELSE txE

\* Variant of LogWrites that writes the instances in descending order.
LogWritesDescending(ev, loggingMode, n) ==
    IF LogCondition(ev.event, loggingMode)
    THEN IF ev.instId = UAVOBJ_ALL_INSTANCES
         THEN [i \in 1..n |-> n - i]
         ELSE <<ev.instId>>
    ELSE <<>>

\* Lines 514-521: the instances written to the log.
LogWrites(ev, loggingMode, n) ==
    IF LogCondition(ev.event, loggingMode)
    THEN IF ev.instId = UAVOBJ_ALL_INSTANCES
         THEN [i \in 1..n |-> i - 1]
         ELSE <<ev.instId>>
    ELSE <<>>

\* Variant of ReconcileAfterAction that passes the event's kind on for a
\* meta-object too.
ReconcileAfterActionOwnTrigger(st, ev, md, tnow) ==
    IF UAVObjIsMetaobject(ev.obj)
    THEN updateObject(st, UAVObjGetLinkedObj(ev.obj),
                      metadata[UAVObjGetLinkedObj(ev.obj)], ev.event, tnow)
    ELSE IF md.telemetryUpdateMode = UPDATEMODE_THROTTLED
    THEN updateObject(st, ev.obj, md, ev.event, tnow)
    ELSE st

\* Lines 491-506: the reconcile calls after the action.
ReconcileAfterAction(st, ev, md, tnow) ==
    IF UAVObjIsMetaobject(ev.obj)
    THEN updateObject(st, UAVObjGetLinkedObj(ev.obj),
                      metadata[UAVObjGetLinkedObj(ev.obj)], EV_NONE, tnow)
    ELSE IF md.telemetryUpdateMode = UPDATEMODE_THROTTLED
    THEN updateObject(st, ev.obj, md, ev.event, tnow)
    ELSE st

\* Lines 523-529: the reconcile call after the log decision.
ReconcileAfterLog(st, ev, loggingMode, tnow) ==
    IF loggingMode = UPDATEMODE_THROTTLED
    THEN updateObject(st, ev.obj, metadata[ev.obj], ev.event, tnow)
    ELSE st

SubState(ch) ==
    [connections |-> connections[ch], timers |-> timers[ch],
     asserted |-> asserted, reconciled |-> <<>>]

\* The two most recent entries of a log.
Recent(log) == IF Len(log) > 2 THEN Tail(log) ELSE log

\* A call of updateTelemetryStats made while processing ev on channel ch.
Evaluate(ch, ev) ==
    \E us \in {SumStats(utalkStats)} :
    \E r \in {updateTelemetryStats(flightStats, gcsStats, us, txErrors, txRetries,
                                   now, timeOfLastObjectUpdate)} :
        /\ flightStats' = r.flightStats
        /\ timeOfLastObjectUpdate' = r.timeOfLastObjectUpdate
        /\ telemetryAlarm' = (telemetryAlarm /\ ~r.alarmsClear)
        /\ txErrors' = 0
        /\ txRetries' = 0
        /\ utalkStats' = [c \in Chans |-> ZeroStats]
        /\ lastEval' = [valid |-> TRUE,
                        pre |-> flightStats.Status, peer |-> gcsStats,
                        timeout |-> r.connectionTimeout,
                        forced |-> r.forceUpdate,
                        silence |-> IF us.rxObjects > 0 THEN 0
                                    ELSE now - lastEval.reportTime,
                        reportTime |-> IF us.rxObjects > 0 THEN now
                                       ELSE lastEval.reportTime,
                        raisedSince |-> FALSE]
        /\ ledger' = [ledger EXCEPT !.retries = @ - txRetries,
                                     !.errors = @ - txErrors]

NoEvaluate == UNCHANGED <<linkVars, cntVars, utalkStats, lastEval, ledger>>

\* Lines 508-530, after which the dispatch is over: st is the subscription
\* state left by the first part, act what the first part did.
LogAndFinish(ch, ev, loggingMode, st, act, outcomes, evaluated) ==
    \E st2 \in {ReconcileAfterLog(st, ev, loggingMode, now)} :
        /\ connections' = [connections EXCEPT ![ch] = st2.connections]
        /\ timers' = [timers EXCEPT ![ch] = st2.timers]
        /\ asserted' = st2.asserted
        /\ lastDispatch' =
               [valid |-> TRUE, ch |-> ch, ev |-> ev, act |-> act,
                outcomes |-> IF act.kind = "none" THEN <<>> ELSE outcomes,
                preErrors |-> txErrors, preRetries |-> txRetries,
                logged |-> LogWrites(ev, loggingMode, numInstances[ev.obj]),
                reconciled |-> st2.reconciled, evaluated |-> evaluated]
        /\ sendLog' =
               IF act.kind = "send" /\ ev.event = EV_UPDATED
                      /\ metadata[ev.obj].telemetryUpdateMode = UPDATEMODE_THROTTLED
               THEN Recent(Append(sendLog, now))
               ELSE sendLog
        /\ phase' =
               IF ev.obj = DataObj
                      /\ metadata[ev.obj].telemetryUpdateMode = UPDATEMODE_THROTTLED
               THEN IF ev.event = EV_UPDATED THEN "cooldown"
                    ELSE IF ev.event = EV_UPDATED_PERIODIC THEN "open"
                    ELSE phase
               ELSE phase

\* ------------------------------------------------------------------------
\* Transports (telemetry.c:229-242, 618-664)

NoPort == "0"
PIOS_COM_TELEM_RF == "PIOS_COM_TELEM_RF"
PIOS_COM_RF == "PIOS_COM_RF"
PIOS_COM_TELEM_USB == "PIOS_COM_TELEM_USB"
Macros == {"PIOS_INCLUDE_RFM22B", "PIOS_INCLUDE_USB"}

\* Lines 644-648 (and 232-236): the secondary channel's port of the build b.
RadioDefaultPort(b) == IF "PIOS_INCLUDE_RFM22B" \in b THEN PIOS_COM_RF ELSE NoPort

\* Variant of RadioOutputPort that never looks at USB.
RadioOutputPortDefaultOnly(b, usb) == RadioDefaultPort(b)

\* Lines 644-654 (and 232-242): outputPort of transmitRadioData, for the
\* answer usb of PIOS_COM_Available(PIOS_COM_TELEM_USB).
RadioOutputPort(b, usb) ==
    IF "PIOS_INCLUDE_USB" \in b /\ usb THEN PIOS_COM_TELEM_USB ELSE RadioDefaultPort(b)

\* Line 622: outputPort of transmitData.
TelemOutputPort == PIOS_COM_TELEM_RF

\* The port the next transmission of channel ch goes to.
OutputPortNow(ch) ==
    IF ch = "telem" THEN TelemOutputPort ELSE RadioOutputPort(build, usbAvailable)

\* transmitData / transmitRadioData, called `calls' times by the protocol
\* on channel ch within one step: the port is chosen and remembered in the
\* channel's context. The history keeps, of the last transmitRadioData call,
\* the answer of PIOS_COM_Available and the port chosen, and whether the
\* receive task has started an iteration since.
Remembered(ch, calls) ==
    /\ telemetryPort' = IF calls > 0
                        THEN [telemetryPort EXCEPT ![ch] = OutputPortNow(ch)]
                        ELSE telemetryPort
    /\ outputPort' = IF calls > 0 /\ ch = "radio"
                     THEN [called |-> TRUE, usb |-> usbAvailable,
                           port |-> OutputPortNow(ch), heard |-> FALSE]
                     ELSE outputPort

\* The same from a transmit task, which leaves the receive tasks alone.
Transmits(ch, calls) ==
    /\ Remembered(ch, calls)
    /\ UNCHANGED <<build, usbAvailable, rxTask>>

\* ev->obj == 0: lines 442-443; the log part is skipped (line 509).
StatsBranch(ch, ev) ==
    /\ Evaluate(ch, ev)
    /\ Transmits(ch, 0)
    /\ UNCHANGED <<subVars, sendLog, phase>>
    /\ lastDispatch' =
           [valid |-> TRUE, ch |-> ch, ev |-> ev, act |-> NoAction,
            outcomes |-> <<>>,
            preErrors |-> txErrors, preRetries |-> txRetries,
            logged |-> <<>>, reconciled |-> <<>>, evaluated |-> TRUE]

\* ev->obj == GCSTelemetryStatsHandle(): lines 444-445, then the log part,
\* which reads the logging mode from the metadata local that this path never
\* writes: uninit is the value found there.
GcsBranch(ch, ev, uninit) ==
    /\ IF gcsTelemetryStatsUpdated(flightStats.Status, gcsStats)
       THEN Evaluate(ch, ev)
       ELSE NoEvaluate
    /\ Transmits(ch, 0)
    /\ LogAndFinish(ch, ev, uninit, SubState(ch), NoAction, <<>>,
                    gcsTelemetryStatsUpdated(flightStats.Status, gcsStats))

\* Any other object: lines 446-506, then the log part.
ObjBranch(ch, ev, outcomes) ==
    \E md \in {metadata[ev.obj]}, act \in {OutboundAction(ev, metadata[ev.obj], outcomes)} :
        /\ RetriesAfter(act, txRetries) <= MaxCount
        /\ ErrorsAfter(act, txErrors) <= MaxCount
        /\ txRetries' = RetriesAfter(act, txRetries)
        /\ txErrors' = ErrorsAfter(act, txErrors)
        /\ ledger' = [ledger EXCEPT
                          !.retries = @ + act.retries,
                          !.errors = @ + (ErrorsAfter(act, txErrors) - txErrors)]
        /\ UNCHANGED <<linkVars, utalkStats, lastEval>>
        /\ Transmits(ch, act.calls)
        /\ LogAndFinish(ch, ev, md.loggingUpdateMode,
                        ReconcileAfterAction(SubState(ch), ev, md, now), act,
                        outcomes, FALSE)

\* The whole handler. It leaves the clock, the registry's objects, the
\* queues, the peer's status and the transmit task positions alone.
processObjEvent(ch, ev, outcomes, uninit) ==
    /\ ~asserted
    /\ IF ev.obj = NullObj
       THEN StatsBranch(ch, ev)
       ELSE IF ev.obj = GcsObj
       THEN GcsBranch(ch, ev, uninit)
       ELSE ObjBranch(ch, ev, outcomes)

\* ------------------------------------------------------------------------
\* The state after TelemetryInitialize and TelemetryStart
\* (telemetry.c:152-275, 284-318)

Event(obj, instId, event) == [obj |-> obj, instId |-> instId, event |-> event]

\* The statistics event: a zeroed UAVObjEvent (lines 255-256).
StatsEvent == Event(NullObj, 0, EV_NONE)

Metadata(telemetryMode, loggingMode, acked) ==
    [telemetryUpdateMode |-> telemetryMode, loggingUpdateMode |-> loggingMode,
     telemetryUpdatePeriod |-> PeriodMs, loggingUpdatePeriod |-> PeriodMs,
     telemetryAcked |-> acked]

\* Lines 258-264: the statistics timer of a channel.
StatsTimer ==
    [obj |-> NullObj, event |-> EV_NONE, queue |-> "priorityQueue",
     period |-> STATS_UPDATE_PERIOD_MS, due |-> STATS_UPDATE_PERIOD_MS]

\* registerTelemObject / registerRadioObject over the objects of the
\* registry, then GCSTelemetryStatsConnectQueue (lines 154-160).
Registered(md) ==
    LET st0 == [connections |-> [o \in Objs |-> [q \in Queues |-> {}]],
                timers |-> <<StatsTimer>>, asserted |-> FALSE, reconciled |-> <<>>]
        st1 == updateObject(st0, DataObj, md[DataObj], EV_NONE, 0)
        st2 == updateObject(st1, GcsObj, md[GcsObj], EV_NONE, 0)
        c1 == UAVObjConnectQueue(st2.connections, MetaObj, "priorityQueue",
                                 EV_MASK_ALL_UPDATES)
        c2 == UAVObjConnectQueue(c1, GcsObj, "priorityQueue", EV_MASK_ALL_UPDATES)
    IN  [st2 EXCEPT !.connections = c2]

ZeroFlightStats ==
    [Status |-> STATUS_DISCONNECTED,
     TxDataRate |-> 0, TxBytes |-> 0, TxFailures |-> 0, TxRetries |-> 0,
     RxDataRate |-> 0, RxBytes |-> 0, RxFailures |-> 0,
     RxSyncErrors |-> 0, RxCrcErrors |-> 0]

NoDispatch ==
    [valid |-> FALSE, ch |-> "telem", ev |-> StatsEvent, act |-> NoAction,
     outcomes |-> <<>>, preErrors |-> 0, preRetries |-> 0,
     logged |-> <<>>, reconciled |-> <<>>, evaluated |-> FALSE]

NoEval ==
    [valid |-> FALSE, pre |-> STATUS_DISCONNECTED, peer |-> STATUS_DISCONNECTED,
     timeout |-> FALSE, forced |-> FALSE, silence |-> 0, reportTime |-> 0,
     raisedSince |-> FALSE]

\* What has been observed of a transmit loop: whether its current iteration
\* started with the priority queue non-empty, whether a non-blocking pop has
\* found that queue empty since, the normal-queue events dispatched since
\* the queue was last found empty (counted up to 2), whether a normal-queue
\* event was dispatched before that, and whether one was dispatched after it.
\* Of the events waiting in the priority queue, the first `overtaken' were
\* there when a normal-queue event was dispatched; `twice' tells whether a
\* normal-queue event was ever dispatched while such an event still waited,
\* and `served' whether the priority event dispatched last was one of them;
\* `turn' is the parity of the number of normal-queue events dispatched.
NoTxHist ==
    [startedNonEmpty |-> FALSE, emptySeen |-> FALSE, normals |-> 0,
     early |-> FALSE, ordered |-> FALSE,
     overtaken |-> 0, twice |-> FALSE, served |-> FALSE, turn |-> 0]

\* A transmit task at the top of its loop; its locals hold nothing.
IdleTask ==
    [pc |-> "drain", retries |-> 0, success |-> 0, reg |-> 0,
     flightStats |-> ZeroFlightStats, gcsStats |-> STATUS_DISCONNECTED,
     utalkStats |-> ZeroStats]

\* A receive task at the top of its loop.
IdleRx == [pc |-> "top", inputPort |-> NoPort]

\* No transmitRadioData call was made yet.
NoOutputPort == [called |-> FALSE, usb |-> FALSE, port |-> NoPort, heard |-> FALSE]

\* Lines 229-242: the ports after start-up in the build b, usb telling
\* whether USB is available then and afterwards.
StartedPorts(b, usb) ==
    /\ build = b
    /\ usbAvailable = usb
    /\ telemetryPort = [ch \in Chans |-> IF ch = "telem" THEN PIOS_COM_TELEM_RF
                                         ELSE RadioOutputPort(b, usb)]
    /\ rxTask = [ch \in Chans |-> IdleRx]
    /\ outputPort = NoOutputPort

\* The state after start-up, for the metadata md of the objects, the data
\* object's priority flag and number of instances, the local and peer
\* status, the build b and the availability of USB.
StartedBuild(md, prio, n, status, peer, b, usb) ==
    /\ StartedPorts(b, usb)
    /\ now = 0
    /\ metadata = md
    /\ isPriority = [o \in Objs |-> IF o = DataObj THEN prio ELSE TRUE]
    /\ numInstances = [o \in Objs |-> IF o = DataObj THEN n ELSE 1]
    /\ connections = [ch \in Chans |-> Registered(metadata).connections]
    /\ timers = [ch \in Chans |-> Registered(metadata).timers]
    /\ queues = [ch \in Chans |-> [q \in Queues |-> <<>>]]
    /\ asserted = FALSE
    /\ txErrors = 0
    /\ txRetries = 0
    /\ timeOfLastObjectUpdate = 0
    /\ flightStats = [ZeroFlightStats EXCEPT !.Status = status]
    /\ gcsStats = peer
    /\ utalkStats = [ch \in Chans |-> ZeroStats]
    /\ telemetryAlarm = TRUE
    /\ task = [ch \in Chans |-> IdleTask]
    /\ lastDispatch = NoDispatch
    /\ lastEval = NoEval
    /\ sendLog = <<>>
    /\ txHist = [ch \in Chans |-> NoTxHist]
    /\ ledger = [retries |-> 0, errors |-> 0, sends |-> 0]
    /\ phase = "initial"

\* The same in the build with every macro defined and USB unplugged.
StartedAll(md, prio, n, status, peer) ==
    StartedBuild(md, prio, n, status, peer, Macros, FALSE)

\* The same, for the metadata mdData of the data object.
StartedWith(mdData, prio, n, status, peer) ==
    StartedAll([o \in Objs |->
                   IF o = DataObj THEN mdData
                   ELSE Metadata(UPDATEMODE_ONCHANGE, UPDATEMODE_MANUAL, TRUE)],
               prio, n, status, peer)

Started(mdData, prio, n, status) ==
    StartedWith(mdData, prio, n, status, STATUS_DISCONNECTED)

\* ------------------------------------------------------------------------
\* Specification Spec: the dispatch engine of the main channel, fed one
\* event at a time.

Outcomes == [1..OutcomeLen -> {0, -1}]

InstIds == {0, MaxInstances - 1, UAVOBJ_ALL_INSTANCES}

ObjectEvents(objs) ==
    {Event(o, i, e) : o \in objs, i \in InstIds, e \in EventKinds}

Init ==
    \E tm \in UpdateModes, lm \in UpdateModes, acked \in BOOLEAN :
        Started(Metadata(tm, lm, acked), FALSE, 1, STATUS_DISCONNECTED)

\* The results worth offering to the dispatch of ev: all of them when it
\* makes protocol calls, one otherwise.
OutcomesFor(ev) ==
    IF ev.obj \in {NullObj, GcsObj}
           \/ OutboundAction(ev, metadata[ev.obj], [i \in 1..OutcomeLen |-> 0]).kind = "none"
    THEN {[i \in 1..OutcomeLen |-> 0]}
    ELSE Outcomes

Dispatch ==
    \E ev \in {Event(DataObj, 0, e) : e \in EventKinds} \cup {StatsEvent} :
      \E outcomes \in OutcomesFor(ev) :
        /\ processObjEvent("telem", ev, outcomes, UPDATEMODE_MANUAL)
        /\ UNCHANGED <<now, objVars, queues, gcsStats, task, txHist>>

Next == Dispatch

Spec == Init /\ [][Next]_vars

\* ------------------------------------------------------------------------
\* Retry accounting

\* The protocol call fails n times in a row and then succeeds.
FailsThenSucceeds(outcomes, n) ==
    /\ \A i \in 1..n : outcomes[i] = -1
    /\ outcomes[n + 1] = 0

Attempted == lastDispatch.valid /\ lastDispatch.act.kind # "none"

\* C1: a send or request whose protocol call fails N times in a row and then
\* succeeds, N in 0..2, leaves txErrors unchanged and adds exactly N to
\* txRetries.
C1_RetryAccountingOnSuccess ==
    \A n \in 0..2 :
        Attempted /\ FailsThenSucceeds(lastDispatch.outcomes, n)
            => /\ txErrors = lastDispatch.preErrors
               /\ txRetries = lastDispatch.preRetries + n

\* C2: an action is attempted up to 3 times: a third attempt follows two
\* failed ones, the action is given up only after 3 failed attempts in a row,
\* and then txErrors grows by exactly 1 and txRetries by exactly 2.
C2_RetryCeiling ==
    Attempted =>
        LET o == lastDispatch.outcomes
            gaveUp == txErrors # lastDispatch.preErrors
        IN  /\ lastDispatch.act.calls <= 3
            /\ (o[1] = -1 /\ o[2] = -1 => lastDispatch.act.calls = 3)
            /\ (gaveUp => o[1] = -1 /\ o[2] = -1 /\ o[3] = -1)
            /\ (o[1] = -1 /\ o[2] = -1 /\ o[3] = -1
                   => /\ txErrors = lastDispatch.preErrors + 1
                      /\ txRetries = lastDispatch.preRetries + 2)

\* ------------------------------------------------------------------------
\* The environment of the module

\* The transmit tasks of the channels chs have caught up with their queues.
Idle(chs) ==
    \A ch \in chs : task[ch].pc = "wait" /\ \A q \in Queues : queues[ch][q] = <<>>

\* Time passes by one clock step, far longer than the transmit tasks of the
\* channels chs take to catch up: they are idle, and no periodic entry of
\* theirs is due.
Tick(chs) ==
    /\ now + TickMs <= MaxTime
    /\ Idle(chs)
    /\ \A ch \in chs : \A i \in 1..Len(timers[ch]) :
           timers[ch][i].period > 0 => timers[ch][i].due > now
    /\ now' = now + TickMs
    /\ UNCHANGED <<objVars, portVars, subVars, queues, cntVars, linkVars, envVars, task, histVars>>

\* What a UAVTalk connection counts between two statistics calls.
LinkTraffic == [f \in StatFields |-> 1]

CumulativeBelowCap ==
    /\ flightStats.TxBytes < MaxCum
    /\ flightStats.RxBytes < MaxCum
    /\ flightStats.RxFailures < MaxCum

\* Bytes and objects pass over the link of channel ch.
Traffic(ch) ==
    /\ \A c \in Chans : utalkStats[c] = ZeroStats
    /\ CumulativeBelowCap
    /\ utalkStats' = [utalkStats EXCEPT ![ch] = LinkTraffic]
    /\ UNCHANGED <<now, objVars, portVars, subVars, queues, cntVars, linkVars, gcsStats, task, histVars>>

\* A queue after xQueueSend with no wait: a full queue loses the event.
Sent(q, ev) == IF Len(q) < MaxQueue THEN Append(q, ev) ELSE q

\* The queues after the registry has raised an event of the given kind for
\* obj: on the channels chs it is queued wherever the object's connection
\* mask holds the kind.
Raised(chs, obj, instId, kind) ==
    [ch \in Chans |-> [q \in Queues |->
        IF ch \in chs /\ kind \in connections[ch][obj][q]
        THEN Sent(queues[ch][q], Event(obj, instId, kind))
        ELSE queues[ch][q]]]

\* The ground station writes the Status field of GCSTelemetryStats; the
\* object's update event goes to the channels chs.
PeerSetsStatus(chs) ==
    /\ \E s \in StatusValues \ {gcsStats} : gcsStats' = s
    /\ queues' = Raised(chs, GcsObj, 0, EV_UPDATED)
    /\ UNCHANGED <<now, objVars, portVars, subVars, cntVars, linkVars, utalkStats, task, histVars>>

\* The object obj is set: the registry raises an event of the given kind.
ObjectChanged(chs, obj, instId, kind) ==
    /\ queues' = Raised(chs, obj, instId, kind)
    /\ queues' # queues
    /\ UNCHANGED <<now, objVars, portVars, subVars, cntVars, linkVars, envVars, task, histVars>>

\* A periodic entry of channel ch is due: its event is queued and the entry
\* is scheduled one period later.
TimerFire(ch) ==
    \E i \in 1..Len(timers[ch]) :
        LET t == timers[ch][i]
            ev == Event(t.obj, IF t.obj = NullObj THEN 0 ELSE UAVOBJ_ALL_INSTANCES, t.event)
        IN  /\ t.period > 0
            /\ t.due <= now
            /\ timers' = [timers EXCEPT ![ch][i].due = t.due + t.period]
            /\ queues' = [queues EXCEPT ![ch][t.queue] = Sent(@, ev)]
            /\ UNCHANGED <<now, objVars, portVars, connections, asserted, cntVars, linkVars,
                           envVars, task, histVars>>

\* ------------------------------------------------------------------------
\* telemetryTxTask (telemetry.c:536-574), one step per queue receive

\* Where the loop goes when the priority queue is drained.
AfterDrainWait == "wait"
AfterDrain == "main"

\* Where the loop goes after the normal-queue event is processed.
AfterNormalPollAgain == "main"
AfterNormal == "drain"

\* The loop starts an iteration with the queues as qs.
Restarted(h, qs) ==
    [h EXCEPT !.startedNonEmpty = qs["priorityQueue"] # <<>>, !.emptySeen = FALSE]

\* The record of a loop after it has dispatched the head of its priority queue.
PriorityServed(h) ==
    [h EXCEPT !.served = h.overtaken > 0,
              !.overtaken = IF @ > 0 THEN @ - 1 ELSE 0]

TxProcess(ch, q, pc, outcomes, uninit) ==
    /\ queues[ch][q] # <<>>
    /\ processObjEvent(ch, Head(queues[ch][q]), outcomes, uninit)
    /\ queues' = [queues EXCEPT ![ch][q] = Tail(@)]
    /\ task' = [task EXCEPT ![ch].pc = pc]
    /\ UNCHANGED <<now, objVars, gcsStats>>

\* Line 553: the non-blocking receive on the priority queue returns an event.
TxDrainPop(ch, outcomes, uninit) ==
    /\ task[ch].pc = "drain"
    /\ TxProcess(ch, "priorityQueue", "drain", outcomes, uninit)
    /\ txHist' = [txHist EXCEPT ![ch] = PriorityServed(@)]

\* Line 553: it finds the priority queue empty.
TxDrainEmpty(ch) ==
    /\ task[ch].pc = "drain"
    /\ queues[ch]["priorityQueue"] = <<>>
    /\ task' = [task EXCEPT ![ch].pc = AfterDrain]
    /\ txHist' = [txHist EXCEPT ![ch].emptySeen = TRUE, ![ch].normals = 0]
    /\ UNCHANGED <<now, objVars, portVars, subVars, queues, cntVars, linkVars, envVars,
                   lastDispatch, lastEval, sendLog, ledger, phase>>

\* Line 558: the non-blocking receive on the normal queue returns an event.
TxMainPop(ch, outcomes, uninit) ==
    /\ task[ch].pc = "main"
    /\ TxProcess(ch, "mainQueue", AfterNormal, outcomes, uninit)
    /\ txHist' = [txHist EXCEPT ![ch] =
           Restarted([@ EXCEPT
                         !.normals = IF @ < 2 THEN @ + 1 ELSE @,
                         !.early = @ \/ (txHist[ch].startedNonEmpty /\ ~txHist[ch].emptySeen),
                         !.ordered = txHist[ch].startedNonEmpty /\ txHist[ch].emptySeen,
                         !.twice = @ \/ txHist[ch].overtaken > 0,
                         !.turn = 1 - @,
                         !.overtaken = Len(queues[ch]["priorityQueue"])],
                     queues'[ch])]

\* Line 558: it finds the normal queue empty.
TxMainEmpty(ch) ==
    /\ task[ch].pc = "main"
    /\ queues[ch]["mainQueue"] = <<>>
    /\ task' = [task EXCEPT ![ch].pc = "wait"]
    /\ UNCHANGED <<now, objVars, portVars, subVars, queues, cntVars, linkVars, envVars, histVars>>

\* Line 562: the one-tick receive on the priority queue returns an event.
TxWaitPop(ch, outcomes, uninit) ==
    /\ task[ch].pc = "wait"
    /\ TxProcess(ch, "priorityQueue", "drain", outcomes, uninit)
    /\ txHist' = [txHist EXCEPT ![ch] = Restarted(PriorityServed(@), queues'[ch])]

\* Line 562: it times out.
TxWaitTimeout(ch) ==
    /\ task[ch].pc = "wait"
    /\ queues[ch]["priorityQueue"] = <<>>
    /\ task' = [task EXCEPT ![ch].pc = "drain"]
    /\ txHist' = [txHist EXCEPT ![ch] = Restarted(@, queues[ch])]
    /\ UNCHANGED <<now, objVars, portVars, subVars, queues, cntVars, linkVars, envVars,
                   lastDispatch, lastEval, sendLog, ledger, phase>>

\* ------------------------------------------------------------------------
\* Specification SpecStats: the connection / statistics state machine, run
\* by the statistics event of the main channel at any time.

AllSucceed == [i \in 1..OutcomeLen |-> 0]

StatsDispatch ==
    /\ processObjEvent("telem", StatsEvent, AllSucceed, UPDATEMODE_MANUAL)
    /\ UNCHANGED <<now, objVars, queues, gcsStats, task, txHist>>

InitStats ==
    Started(Metadata(UPDATEMODE_MANUAL, UPDATEMODE_MANUAL, FALSE), FALSE, 1,
            STATUS_DISCONNECTED)

NextStats ==
    \/ Tick({})
    \/ \E ch \in Chans : Traffic(ch)
    \/ PeerSetsStatus({})
    \/ StatsDispatch

SpecStats == InitStats /\ [][NextStats]_vars

\* Specification SpecFn: the same machine started from every value the
\* Status field can hold.
InitFn ==
    \E status \in StatusValues :
        Started(Metadata(UPDATEMODE_MANUAL, UPDATEMODE_MANUAL, FALSE), FALSE, 1, status)

SpecFn == InitFn /\ [][NextStats]_vars

\* ------------------------------------------------------------------------
\* Connection state machine

\* The transition table as the specification states it.
TableStatus(local, peer, timedOut) ==
    CASE local = STATUS_DISCONNECTED ->
            IF peer = STATUS_HANDSHAKEREQ THEN STATUS_HANDSHAKEACK
            ELSE STATUS_DISCONNECTED
      [] local = STATUS_HANDSHAKEACK ->
            IF peer = STATUS_CONNECTED THEN STATUS_CONNECTED
            ELSE IF peer = STATUS_DISCONNECTED THEN STATUS_DISCONNECTED
            ELSE STATUS_HANDSHAKEACK
      [] local = STATUS_CONNECTED ->
            IF peer # STATUS_CONNECTED \/ timedOut THEN STATUS_DISCONNECTED
            ELSE STATUS_CONNECTED
      [] OTHER -> STATUS_DISCONNECTED

\* C6: one evaluation maps (local status, peer status, timeout) to the local
\* status the transition table gives, and CONNECTED is only ever entered from
\* HANDSHAKEACK.
C6_TransitionFunction ==
    lastEval.valid =>
        /\ flightStats.Status = TableStatus(lastEval.pre, lastEval.peer, lastEval.timeout)
        /\ (flightStats.Status = STATUS_CONNECTED /\ lastEval.pre # STATUS_CONNECTED
               => lastEval.pre = STATUS_HANDSHAKEACK)

C6_Witness ==
    /\ lastEval.valid
    /\ lastEval.pre = STATUS_HANDSHAKEACK
    /\ lastEval.peer = STATUS_CONNECTED
    /\ flightStats.Status = STATUS_CONNECTED

AllCountersZero(fs) ==
    /\ fs.TxDataRate = 0 /\ fs.TxBytes = 0 /\ fs.TxFailures = 0 /\ fs.TxRetries = 0
    /\ fs.RxDataRate = 0 /\ fs.RxBytes = 0 /\ fs.RxFailures = 0
    /\ fs.RxSyncErrors = 0 /\ fs.RxCrcErrors = 0

\* C7: every record written by an evaluation that leaves the local status
\* other than CONNECTED has all its rate and cumulative counters at zero.
C7_ZeroWhenNotConnected ==
    lastEval.valid /\ flightStats.Status # STATUS_CONNECTED
        => AllCountersZero(flightStats)

\* C8: an evaluation made with local and peer status CONNECTED disconnects
\* when no received object has been reported for longer than
\* CONNECTION_TIMEOUT_MS, and stays CONNECTED otherwise.
C8_LinkLossDetection ==
    lastEval.valid /\ lastEval.pre = STATUS_CONNECTED /\ lastEval.peer = STATUS_CONNECTED
        => IF lastEval.silence > CONNECTION_TIMEOUT_MS
           THEN flightStats.Status = STATUS_DISCONNECTED
           ELSE flightStats.Status = STATUS_CONNECTED

C8_Witness ==
    /\ lastEval.valid
    /\ lastEval.pre = STATUS_CONNECTED
    /\ lastEval.peer = STATUS_CONNECTED
    /\ lastEval.silence > CONNECTION_TIMEOUT_MS
    /\ flightStats.Status = STATUS_DISCONNECTED

\* ------------------------------------------------------------------------
\* Specification SpecTx: the main channel from the registry and the timers
\* through its queues and transmit task, for a throttled data object.

InitTx ==
    \E lm \in UpdateModes :
        Started(Metadata(UPDATEMODE_THROTTLED, lm, FALSE), FALSE, 1, STATUS_DISCONNECTED)

NextTx ==
    \/ Tick({"telem"})
    \/ TimerFire("telem")
    \/ ObjectChanged({"telem"}, DataObj, 0, EV_UPDATED)
    \/ TxDrainPop("telem", AllSucceed, UPDATEMODE_MANUAL)
    \/ TxDrainEmpty("telem")
    \/ TxMainPop("telem", AllSucceed, UPDATEMODE_MANUAL)
    \/ TxMainEmpty("telem")
    \/ TxWaitPop("telem", AllSucceed, UPDATEMODE_MANUAL)
    \/ TxWaitTimeout("telem")

SpecTx == InitTx /\ [][NextTx]_vars

\* ------------------------------------------------------------------------
\* Throttling

\* C3: for a data object in telemetry mode THROTTLED with period PeriodMs,
\* two sends triggered by UPDATED events are never less than one period
\* apart, whatever the logging mode.
C3_ThrottledRateLimit ==
    Len(sendLog) = 2 => sendLog[2] - sendLog[1] >= PeriodMs

\* The subscription installed on the data object on the main channel.
DataMask == connections["telem"][DataObj][TargetQueue(DataObj)]

PeriodicOnly(mask) ==
    /\ {EV_UPDATED_PERIODIC, EV_UPDATED_MANUAL, EV_UPDATE_REQ} \subseteq mask
    /\ EV_UPDATED \notin mask

\* C4: for a data object in telemetry mode THROTTLED and every logging mode,
\* from the processing of an UPDATED event until the processing of an
\* UPDATED_PERIODIC event its subscription is periodic-only, and right after
\* the latter it holds UPDATED again.
C4_ThrottledBistable ==
    /\ phase = "cooldown" => PeriodicOnly(DataMask)
    /\ (lastDispatch.valid /\ lastDispatch.ev.obj = DataObj
            /\ lastDispatch.ev.event = EV_UPDATED_PERIODIC)
           => EV_UPDATED \in DataMask

\* ------------------------------------------------------------------------
\* Transmit loop

\* C5: a loop iteration that starts with the priority queue non-empty
\* dispatches no normal-queue event before a non-blocking receive has found
\* the priority queue empty, and at most one normal-queue event is dispatched
\* between two such findings.
C5_PriorityOrdering ==
    \A ch \in Chans : ~txHist[ch].early /\ txHist[ch].normals <= 1

\* A normal-queue event was dispatched in an iteration that started with the
\* priority queue non-empty, after that queue was drained.
C5_Witness ==
    txHist["telem"].ordered /\ txHist["telem"].normals = 1

\* ------------------------------------------------------------------------
\* Specification SpecLink: both channels, from the timers and the registry
\* through their queues and transmit tasks. The data object is sent on demand
\* and nothing demands it, so the normal queues stay empty.

InitLink ==
    Started(Metadata(UPDATEMODE_MANUAL, UPDATEMODE_MANUAL, FALSE), FALSE, 1,
            STATUS_DISCONNECTED)

\* The ground station's writes are as far apart as clock steps: each finds
\* the transmit tasks idle.
PeerUpdate == Idle(Chans) /\ PeerSetsStatus(Chans)

NextLink ==
    \/ Tick(Chans)
    \/ PeerUpdate
    \/ \E ch \in Chans :
        \/ TimerFire(ch)
        \/ TxDrainEmpty(ch)
        \/ TxMainEmpty(ch)
        \/ TxWaitTimeout(ch)
        \/ \E uninit \in UpdateModes :
            \/ TxDrainPop(ch, AllSucceed, uninit)
            \/ TxWaitPop(ch, AllSucceed, uninit)

SpecLink == InitLink /\ [][NextLink]_vars

\* C9: the connection state machine is evaluated only by the main channel's
\* transmit task, and only for the periodic statistics event.
C9_SingleDriver ==
    lastDispatch.valid /\ lastDispatch.evaluated
        => lastDispatch.ch = "telem" /\ lastDispatch.ev.obj = NullObj

\* ------------------------------------------------------------------------
\* Specification SpecConc: the two transmit tasks at the grain of their
\* accesses to the shared counters txErrors and txRetries (lines 122-123).
\* Either task may be preempted by the other between two accesses. The link
\* is up and stays up; events are handed to the tasks directly.

ManualSend == Event(DataObj, 0, EV_UPDATED_MANUAL)

\* Lines 452-467: the send loop, into the locals retries and success.
ConcSend(ch, outcomes) ==
    /\ task[ch].pc = "drain"
    /\ ledger.sends < MaxCount
    /\ \E act \in {OutboundAction(ManualSend, metadata[DataObj], outcomes)} :
           /\ task' = [task EXCEPT ![ch].pc = "loadRetries",
                                   ![ch].retries = act.retries,
                                   ![ch].success = act.success]
           /\ Transmits(ch, act.calls)
    /\ ledger' = [ledger EXCEPT !.sends = @ + 1]
    /\ UNCHANGED <<now, objVars, subVars, queues, cntVars, linkVars, envVars,
                   lastDispatch, lastEval, sendLog, txHist, phase>>

\* Line 469, txRetries += retries: the load.
ConcLoadRetries(ch) ==
    /\ task[ch].pc = "loadRetries"
    /\ task' = [task EXCEPT ![ch].pc = "storeRetries", ![ch].reg = txRetries]
    /\ UNCHANGED <<now, objVars, portVars, subVars, queues, cntVars, linkVars, envVars, histVars>>

\* Line 469: the store; then the test of line 470.
ConcStoreRetries(ch) ==
    /\ task[ch].pc = "storeRetries"
    /\ txRetries' = task[ch].reg + task[ch].retries
    /\ ledger' = [ledger EXCEPT !.retries = @ + task[ch].retries]
    /\ task' = [task EXCEPT ![ch] = IF task[ch].success = -1
                                    THEN [IdleTask EXCEPT !.pc = "loadErrors"]
                                    ELSE IdleTask]
    /\ UNCHANGED <<now, objVars, portVars, subVars, queues, txErrors, linkVars, envVars,
                   lastDispatch, lastEval, sendLog, txHist, phase>>

\* Line 471, ++txErrors: the load.
ConcLoadErrors(ch) ==
    /\ task[ch].pc = "loadErrors"
    /\ task' = [task EXCEPT ![ch].pc = "storeErrors", ![ch].reg = txErrors]
    /\ UNCHANGED <<now, objVars, portVars, subVars, queues, cntVars, linkVars, envVars, histVars>>

\* Line 471: the store. Lines 491-530 do nothing for this object and event.
ConcStoreErrors(ch) ==
    /\ task[ch].pc = "storeErrors"
    /\ txErrors' = task[ch].reg + 1
    /\ ledger' = [ledger EXCEPT !.errors = @ + 1]
    /\ task' = [task EXCEPT ![ch] = IdleTask]
    /\ UNCHANGED <<now, objVars, portVars, subVars, queues, txRetries, linkVars, envVars,
                   lastDispatch, lastEval, sendLog, txHist, phase>>

\* updateTelemetryStats, lines 766-796: the link statistics are taken and
\* the counters read into the local record.
ConcStatsFold(ch) ==
    /\ task[ch].pc = "drain"
    /\ \E us \in {SumStats(utalkStats)} :
           task' = [task EXCEPT
                       ![ch].pc = "reset",
                       ![ch].utalkStats = us,
                       ![ch].gcsStats = gcsStats,
                       ![ch].flightStats = FoldCounters(flightStats, us, txErrors, txRetries)]
    /\ utalkStats' = [c \in Chans |-> ZeroStats]
    /\ ledger' = [ledger EXCEPT !.retries = @ - txRetries, !.errors = @ - txErrors]
    /\ UNCHANGED <<now, objVars, portVars, subVars, queues, cntVars, linkVars, gcsStats,
                   lastDispatch, lastEval, sendLog, txHist, phase>>

\* Lines 797-798.
ConcStatsReset(ch) ==
    /\ task[ch].pc = "reset"
    /\ txErrors' = 0
    /\ txRetries' = 0
    /\ task' = [task EXCEPT ![ch].pc = "publish"]
    /\ UNCHANGED <<now, objVars, portVars, subVars, queues, linkVars, envVars, histVars>>

\* Lines 800-847.
ConcStatsPublish(ch) ==
    /\ task[ch].pc = "publish"
    /\ \E r \in {ConnectionUpdate(task[ch].flightStats, task[ch].gcsStats, task[ch].utalkStats,
                                  now, timeOfLastObjectUpdate)} :
           /\ flightStats' = r.flightStats
           /\ timeOfLastObjectUpdate' = r.timeOfLastObjectUpdate
           /\ telemetryAlarm' = (telemetryAlarm /\ ~r.alarmsClear)
    /\ task' = [task EXCEPT ![ch] = IdleTask]
    /\ UNCHANGED <<now, objVars, portVars, subVars, queues, cntVars, envVars, histVars>>

InitConc ==
    StartedWith(Metadata(UPDATEMODE_MANUAL, UPDATEMODE_MANUAL, FALSE), FALSE, 1,
                STATUS_CONNECTED, STATUS_CONNECTED)

NextConc ==
    \E ch \in Chans :
        \/ \E outcomes \in Outcomes : ConcSend(ch, outcomes)
        \/ ConcLoadRetries(ch)
        \/ ConcStoreRetries(ch)
        \/ ConcLoadErrors(ch)
        \/ ConcStoreErrors(ch)
        \/ ConcStatsFold(ch)
        \/ ConcStatsReset(ch)
        \/ ConcStatsPublish(ch)

SpecConc == InitConc /\ [][NextConc]_vars

\* Both transmit tasks are at the top of their loops.
Quiescent == \A ch \in Chans : task[ch].pc = "drain"

\* C10: under every interleaving of the two transmit tasks no increment is
\* lost or counted twice: between dispatches the counters hold exactly the
\* retries and failures produced and not yet folded, and the record holds
\* exactly those folded.
C10_NoLostIncrement ==
    Quiescent =>
        /\ txRetries = ledger.retries
        /\ txErrors = ledger.errors

\* ------------------------------------------------------------------------
\* Specification SpecMeta: the dispatch engine of the main channel, fed the
\* events of the data object and of its meta-object, for every update mode
\* the registry may hold for either and every number of instances.

InitMeta ==
    \E tm \in UpdateModes, lm \in UpdateModes, mtm \in UpdateModes, mlm \in UpdateModes,
       n \in 1..MaxInstances :
        StartedAll([o \in Objs |->
                       IF o = DataObj THEN Metadata(tm, lm, FALSE)
                       ELSE IF o = MetaObj THEN Metadata(mtm, mlm, TRUE)
                       ELSE Metadata(UPDATEMODE_ONCHANGE, UPDATEMODE_MANUAL, TRUE)],
                   FALSE, n, STATUS_DISCONNECTED, STATUS_DISCONNECTED)

DispatchMeta ==
    \E ev \in ObjectEvents({DataObj, MetaObj}) :
        /\ processObjEvent("telem", ev, AllSucceed, UPDATEMODE_MANUAL)
        /\ UNCHANGED <<now, objVars, queues, gcsStats, task, txHist>>

NextMeta == DispatchMeta

SpecMeta == InitMeta /\ [][NextMeta]_vars

\* C11: updateObject is never called with a meta-object, and the processing
\* of a meta-object's event reconciles the linked object and nothing else,
\* whatever update modes the meta-object's own metadata holds.
C11_MetaNeverReconciled ==
    /\ ~asserted
    /\ (lastDispatch.valid /\ UAVObjIsMetaobject(lastDispatch.ev.obj))
           => lastDispatch.reconciled = <<<<DataObj, EV_NONE>>>>

\* ------------------------------------------------------------------------
\* The two throttles of one object

\* A step in which the main channel processes an event of the data object,
\* of one of the given kinds, while one of its two modes is THROTTLED.
ThrottledStep(kinds) ==
    /\ lastDispatch'.valid
    /\ <<lastDispatch, connections, timers>>' # <<lastDispatch, connections, timers>>
    /\ lastDispatch'.ev.obj = DataObj
    /\ lastDispatch'.ev.event \in kinds
    /\ \/ metadata[DataObj].telemetryUpdateMode = UPDATEMODE_THROTTLED
       \/ metadata[DataObj].loggingUpdateMode = UPDATEMODE_THROTTLED

\* The step leaves the membership of kind in the data object's mask alone.
Keeps(kind) == (kind \in DataMask) <=> (kind \in DataMask')

\* C12: for an object with telemetry or logging mode THROTTLED, processing a
\* LOGGING_PERIODIC or LOGGING_MANUAL event does not move the telemetry part
\* of its mask between UPDATED and UPDATED_PERIODIC, and processing an
\* UPDATED_PERIODIC or UPDATED_MANUAL event does not move the logging part
\* between UPDATED and LOGGING_PERIODIC.
C12_NoCrossTrigger ==
    [][/\ ThrottledStep({EV_LOGGING_PERIODIC, EV_LOGGING_MANUAL})
           => Keeps(EV_UPDATED_PERIODIC)
       /\ ThrottledStep({EV_UPDATED_PERIODIC, EV_UPDATED_MANUAL})
           => Keeps(EV_LOGGING_PERIODIC)]_vars

\* ------------------------------------------------------------------------
\* Publication and alarm

\* C13: every evaluation forces the publication of the local record, except
\* the one that finds the local status CONNECTED and leaves it CONNECTED.
C13_ForcedPublish ==
    lastEval.valid =>
        (lastEval.forced <=>
            ~(lastEval.pre = STATUS_CONNECTED /\ flightStats.Status = STATUS_CONNECTED))

\* An evaluation has left the link connected without forcing a publication.
C13_Witness ==
    /\ lastEval.valid
    /\ lastEval.pre = STATUS_CONNECTED
    /\ flightStats.Status = STATUS_CONNECTED
    /\ ~lastEval.forced

\* ------------------------------------------------------------------------
\* Specification SpecLog: the main channel from the registry and the timers
\* through its queues and transmit task, for a data object that is sent on
\* demand and logged periodically, with a logging period of one clock step.

LoggedOnly ==
    [Metadata(UPDATEMODE_MANUAL, UPDATEMODE_PERIODIC, FALSE)
        EXCEPT !.loggingUpdatePeriod = TickMs]

InitLog == Started(LoggedOnly, FALSE, MaxInstances, STATUS_DISCONNECTED)

NextLog ==
    \/ Tick({"telem"})
    \/ TimerFire("telem")
    \/ ObjectChanged({"telem"}, DataObj, 0, EV_UPDATED_MANUAL)
    \/ TxDrainPop("telem", AllSucceed, UPDATEMODE_MANUAL)
    \/ TxDrainEmpty("telem")
    \/ TxMainPop("telem", AllSucceed, UPDATEMODE_MANUAL)
    \/ TxMainEmpty("telem")
    \/ TxWaitPop("telem", AllSucceed, UPDATEMODE_MANUAL)
    \/ TxWaitTimeout("telem")

SpecLog == InitLog /\ [][NextLog]_vars

\* The periods of the data object's periodic entries for the given event.
PeriodsOf(event) ==
    {timers["telem"][i].period :
        i \in {j \in 1..Len(timers["telem"]) :
                  /\ timers["telem"][j].obj = DataObj
                  /\ timers["telem"][j].event = event}}

\* C14: for an object with telemetry mode MANUAL and logging mode PERIODIC
\* the telemetry timer is disarmed and the logging timer runs at the logging
\* period; every LOGGING_PERIODIC event processed writes the log and makes
\* no send or request; a send is made only for an UPDATED_MANUAL event.
C14_LoggingIndependence ==
    /\ PeriodsOf(EV_UPDATED_PERIODIC) = {0}
    /\ PeriodsOf(EV_LOGGING_PERIODIC) = {metadata[DataObj].loggingUpdatePeriod}
    /\ (lastDispatch.valid /\ lastDispatch.ev.obj = DataObj) =>
          /\ lastDispatch.ev.event = EV_LOGGING_PERIODIC
                => lastDispatch.logged # <<>> /\ lastDispatch.act.kind = "none"
          /\ lastDispatch.act.kind = "send"
                => lastDispatch.ev.event = EV_UPDATED_MANUAL

\* A LOGGING_PERIODIC event of the object was processed and logged.
C14_Witness ==
    /\ lastDispatch.valid
    /\ lastDispatch.ev = Event(DataObj, UAVOBJ_ALL_INSTANCES, EV_LOGGING_PERIODIC)
    /\ Len(lastDispatch.logged) = numInstances[DataObj]
    /\ lastDispatch.act.kind = "none"

\* ------------------------------------------------------------------------
\* Log writes

\* The last event processed was one of the data object that is logged.
LoggableDispatch ==
    /\ lastDispatch.valid
    /\ lastDispatch.ev.obj = DataObj
    /\ LogCondition(lastDispatch.ev.event, metadata[DataObj].loggingUpdateMode)

\* C15: a logged event with the wildcard instance id writes each of the n
\* instances of the object once, in ascending order 0..n-1; a logged event
\* with a specific instance id writes that instance and no other.
C15_WildcardLogging ==
    LoggableDispatch =>
        LET w == lastDispatch.logged
        IN  IF lastDispatch.ev.instId = UAVOBJ_ALL_INSTANCES
            THEN /\ Len(w) = numInstances[DataObj]
                 /\ \A i \in 1..Len(w) : w[i] = i - 1
            ELSE w = <<lastDispatch.ev.instId>>

\* A wildcard event was logged for an object with several instances.
C15_Witness ==
    /\ LoggableDispatch
    /\ lastDispatch.ev.instId = UAVOBJ_ALL_INSTANCES
    /\ numInstances[DataObj] = MaxInstances
    /\ Len(lastDispatch.logged) = MaxInstances

\* ------------------------------------------------------------------------
\* Periodic scheduling

\* The periodic entries of the main channel for the data object's telemetry.
UpdateTimers ==
    {i \in 1..Len(timers["telem"]) :
        /\ timers["telem"][i].obj = DataObj
        /\ timers["telem"][i].event = EV_UPDATED_PERIODIC}

\* C16: whatever reconcile calls were made, an object in telemetry mode
\* PERIODIC has exactly one telemetry timer on the channel, running at its
\* telemetry period; in every telemetry mode the installed mask holds
\* UPDATED_MANUAL and UPDATE_REQ.
C16_PeriodicScheduling ==
    /\ {EV_UPDATED_MANUAL, EV_UPDATE_REQ} \subseteq DataMask
    /\ metadata[DataObj].telemetryUpdateMode = UPDATEMODE_PERIODIC =>
          /\ Cardinality(UpdateTimers) = 1
          /\ \A i \in UpdateTimers :
                 timers["telem"][i].period = metadata[DataObj].telemetryUpdatePeriod

\* An object in telemetry mode PERIODIC was reconciled again after start-up.
C16_Witness ==
    /\ metadata[DataObj].telemetryUpdateMode = UPDATEMODE_PERIODIC
    /\ lastDispatch.valid
    /\ <<DataObj, EV_NONE>> \in {lastDispatch.reconciled[i] :
                                    i \in 1..Len(lastDispatch.reconciled)}
    /\ Cardinality(UpdateTimers) = 1

\* ------------------------------------------------------------------------
\* Priority events behind a normal backlog

\* C17: no normal-queue event is dispatched while an event waits in the
\* priority queue that was already waiting there when the previous
\* normal-queue event was dispatched: an event of the priority queue sees at
\* most one normal-queue event dispatched ahead of it.
C17_PriorityNotStarved ==
    \A ch \in Chans :
        /\ ~txHist[ch].twice
        /\ txHist[ch].overtaken <= Len(queues[ch]["priorityQueue"])

\* A statistics event of the priority queue that waited through the dispatch
\* of one normal-queue event has been dispatched with normal-queue events
\* still waiting.
C17_Witness ==
    /\ txHist["telem"].served
    /\ lastDispatch.valid
    /\ lastDispatch.ev.obj = NullObj
    /\ queues["telem"]["mainQueue"] # <<>>

\* ------------------------------------------------------------------------
\* Specification SpecFair: the main channel's transmit task under fair
\* scheduling, with a data object sent on change filling the normal queue and
\* the ground station's status writes filling the priority queue at any
\* time. The clock stands still.

InitFair ==
    Started(Metadata(UPDATEMODE_ONCHANGE, UPDATEMODE_MANUAL, FALSE), FALSE, 1,
            STATUS_DISCONNECTED)

\* One queue receive of the transmit task of channel ch.
TxStep(ch) ==
    \/ TxDrainPop(ch, AllSucceed, UPDATEMODE_MANUAL)
    \/ TxDrainEmpty(ch)
    \/ TxMainPop(ch, AllSucceed, UPDATEMODE_MANUAL)
    \/ TxMainEmpty(ch)
    \/ TxWaitPop(ch, AllSucceed, UPDATEMODE_MANUAL)
    \/ TxWaitTimeout(ch)

NextFair ==
    \/ ObjectChanged({"telem"}, DataObj, 0, EV_UPDATED)
    \/ PeerSetsStatus({"telem"})
    \/ TxStep("telem")

\* The tasks of the module share one priority (lines 85-88), so the
\* scheduler's time slicing runs the transmit task again and again.
SpecFair == InitFair /\ [][NextFair]_vars /\ WF_vars(TxStep("telem"))

\* C18: if the non-blocking receive finds the priority queue empty again and
\* again, then whenever the normal queue holds an event a normal-queue event
\* is dispatched later (so, the queue being first-in first-out, every event
\* placed in it is dispatched); and a step of the loop taken after the drain
\* has ended with the normal queue non-empty dispatches exactly one
\* normal-queue event and returns to the drain.
C18_NormalProgress ==
    /\ []<>(txHist["telem"].emptySeen) =>
           \A b \in {0, 1} :
               (queues["telem"]["mainQueue"] # <<>> /\ txHist["telem"].turn = b)
                   ~> (txHist["telem"].turn # b)
    /\ [][(/\ task["telem"].pc = "main"
           /\ queues["telem"]["mainQueue"] # <<>>
           /\ task'["telem"] # task["telem"])
              => /\ txHist'["telem"].turn # txHist["telem"].turn
                 /\ task'["telem"].pc = "drain"
                 /\ queues'["telem"]["mainQueue"] = Tail(queues["telem"]["mainQueue"])]_vars

\* A normal-queue event was dispatched while the normal queue held another
\* one and the priority queue had filled again.
C18_Witness ==
    /\ txHist["telem"].turn = 1
    /\ task["telem"].pc = "drain"
    /\ lastDispatch.valid
    /\ lastDispatch.ev.obj = DataObj
    /\ queues["telem"]["mainQueue"] # <<>>
    /\ queues["telem"]["priorityQueue"] # <<>>

\* ------------------------------------------------------------------------
\* telemetryRxTask (telemetry.c:580-608)

\* Variant of RxRead that receives whatever the port is.
RxReadNoPortCheck(ch) ==
    /\ rxTask[ch].pc = "top"
    /\ rxTask' = [rxTask EXCEPT
                     ![ch].inputPort = telemetryPort[ch],
                     ![ch].pc = "receive"]
    /\ outputPort' = IF ch = "radio" /\ outputPort.called
                     THEN [outputPort EXCEPT !.heard = TRUE]
                     ELSE outputPort
    /\ UNCHANGED <<now, objVars, subVars, queues, cntVars, linkVars, envVars, task,
                   histVars, build, usbAvailable, telemetryPort>>

\* Line 591: an iteration starts by reading the channel's port.
RxRead(ch) ==
    /\ rxTask[ch].pc = "top"
    /\ rxTask' = [rxTask EXCEPT
                     ![ch].inputPort = telemetryPort[ch],
                     ![ch].pc = IF telemetryPort[ch] # NoPort THEN "receive" ELSE "delay"]
    /\ outputPort' = IF ch = "radio" /\ outputPort.called
                     THEN [outputPort EXCEPT !.heard = TRUE]
                     ELSE outputPort
    /\ UNCHANGED <<now, objVars, subVars, queues, cntVars, linkVars, envVars, task,
                   histVars, build, usbAvailable, telemetryPort>>

\* Lines 598-603: PIOS_COM_ReceiveBuffer returns, with bytes or after its
\* timeout; the decoder the bytes are fed to may answer, through the
\* channel's transmit function.
RxReceive(ch) ==
    /\ rxTask[ch].pc = "receive"
    /\ \E replies \in {0, 1} : Remembered(ch, replies)
    /\ rxTask' = [rxTask EXCEPT ![ch].pc = "top"]
    /\ UNCHANGED <<now, objVars, subVars, queues, cntVars, linkVars, envVars, task,
                   histVars, build, usbAvailable>>

\* Line 605: vTaskDelay(5) is over.
RxDelay(ch) ==
    /\ rxTask[ch].pc = "delay"
    /\ rxTask' = [rxTask EXCEPT ![ch].pc = "top"]
    /\ UNCHANGED <<now, objVars, subVars, queues, cntVars, linkVars, envVars, task,
                   histVars, build, usbAvailable, telemetryPort, outputPort>>

\* USB is plugged or unplugged.
UsbChange ==
    /\ "PIOS_INCLUDE_USB" \in build
    /\ usbAvailable' = ~usbAvailable
    /\ UNCHANGED <<now, objVars, subVars, queues, cntVars, linkVars, envVars, task,
                   histVars, build, telemetryPort, rxTask, outputPort>>

\* ------------------------------------------------------------------------
\* Specification SpecPort: the secondary channel's transports, in every
\* build, with its dispatch engine fed one event at a time and its receive
\* task running beside it.

AllFail == [i \in 1..OutcomeLen |-> -1]

\* What the protocol calls of channel ch can return: without a port the
\* transmit function fails (lines 631, 663), and the call with it.
PortOutcomes(ch, ev) ==
    IF OutputPortNow(ch) = NoPort /\ OutcomesFor(ev) = Outcomes
    THEN {AllFail}
    ELSE OutcomesFor(ev)

InitPort ==
    \E b \in SUBSET Macros :
      \E usb \in IF "PIOS_INCLUDE_USB" \in b THEN BOOLEAN ELSE {FALSE} :
        StartedBuild([o \in Objs |->
                         IF o = DataObj
                         THEN Metadata(UPDATEMODE_ONCHANGE, UPDATEMODE_MANUAL, FALSE)
                         ELSE Metadata(UPDATEMODE_ONCHANGE, UPDATEMODE_MANUAL, TRUE)],
                     FALSE, 1, STATUS_DISCONNECTED, STATUS_DISCONNECTED, b, usb)

RadioDispatch ==
    \E ev \in {Event(DataObj, 0, EV_UPDATED), Event(DataObj, 0, EV_LOGGING_MANUAL),
               StatsEvent} :
      \E outcomes \in PortOutcomes("radio", ev) :
        /\ processObjEvent("radio", ev, outcomes, UPDATEMODE_MANUAL)
        /\ UNCHANGED <<now, objVars, queues, gcsStats, task, txHist>>

NextPort ==
    \/ UsbChange
    \/ RadioDispatch
    \/ RxRead("radio")
    \/ RxReceive("radio")
    \/ RxDelay("radio")

SpecPort == InitPort /\ [][NextPort]_vars

\* C19: the last transmission of the secondary channel went to USB if USB
\* was available when it was made and to the build's port of the channel
\* otherwise; the channel's context remembers that port; and an iteration
\* of the receive task started since reads from that port (or, if it is no
\* port, sleeps).
C19_TransportPrecedence ==
    outputPort.called =>
        /\ outputPort.port = IF outputPort.usb THEN PIOS_COM_TELEM_USB
                             ELSE IF "PIOS_INCLUDE_RFM22B" \in build THEN PIOS_COM_RF
                             ELSE NoPort
        /\ telemetryPort["radio"] = outputPort.port
        /\ (outputPort.heard /\ rxTask["radio"].pc # "top") =>
               /\ rxTask["radio"].inputPort = outputPort.port
               /\ rxTask["radio"].pc = "receive" <=> outputPort.port # NoPort

\* After start-up without USB, USB was plugged, a dispatch of the secondary
\* channel transmitted, and the receive task then started an iteration on
\* USB; USB is unplugged again.
C19_Witness ==
    /\ "PIOS_INCLUDE_RFM22B" \in build
    /\ lastDispatch.valid /\ lastDispatch.ch = "radio" /\ lastDispatch.act.kind = "send"
    /\ outputPort.called /\ outputPort.usb /\ outputPort.heard
    /\ ~usbAvailable
    /\ rxTask["radio"].pc = "receive"
    /\ rxTask["radio"].inputPort = PIOS_COM_TELEM_USB

\* ------------------------------------------------------------------------
\* Specification SpecAlarm: the connection / statistics state machine beside
\* the rest of the system, which can raise the telemetry alarm.

\* A module other than this one raises the telemetry alarm; the history
\* notes that it happened after the last updateTelemetryStats call.
AlarmsSetElsewhere ==
    /\ ~telemetryAlarm
    /\ telemetryAlarm' = TRUE
    /\ lastEval' = [lastEval EXCEPT !.raisedSince = TRUE]
    /\ UNCHANGED <<now, objVars, portVars, subVars, queues, cntVars,
                   timeOfLastObjectUpdate, flightStats, envVars, task,
                   lastDispatch, sendLog, txHist, ledger, phase>>

NextAlarm ==
    \/ NextStats
    \/ AlarmsSetElsewhere

SpecAlarm == InitFn /\ [][NextAlarm]_vars

\* C20: after an updateTelemetryStats call that left the local status
\* CONNECTED the telemetry alarm is clear (until another module raises it),
\* and every step that raises the alarm is a step of another module: no
\* step of this one does, whatever the status it leaves.
C20_AlarmPolicy ==
    /\ [](lastEval.valid /\ flightStats.Status = STATUS_CONNECTED
              /\ ~lastEval.raisedSince
          => ~telemetryAlarm)
    /\ [][(~telemetryAlarm /\ telemetryAlarm')
              => (~lastEval.raisedSince /\ lastEval'.raisedSince)]_vars

\* The alarm was cleared by a call that left the status CONNECTED, and a
\* later call has found the link lost and set the status DISCONNECTED: the
\* alarm is still clear.
C20_Witness ==
    /\ lastEval.valid
    /\ lastEval.pre = STATUS_CONNECTED
    /\ lastEval.timeout
    /\ flightStats.Status = STATUS_DISCONNECTED
    /\ ~lastEval.raisedSince
    /\ ~telemetryAlarm

\* ------------------------------------------------------------------------
\* Decision tables of the dispatch

\* The protocol action the table gives for an event kind and telemetry mode.
TableAction(kind, mode) ==
    CASE kind = EV_UPDATED /\ mode \in {UPDATEMODE_ONCHANGE, UPDATEMODE_THROTTLED} -> "send"
      [] kind = EV_UPDATED /\ mode \in {UPDATEMODE_PERIODIC, UPDATEMODE_MANUAL} -> "none"
      [] kind = EV_UPDATED_MANUAL -> "send"
      [] kind = EV_UPDATED_PERIODIC /\ mode # UPDATEMODE_THROTTLED -> "send"
      [] kind = EV_UPDATED_PERIODIC /\ mode = UPDATEMODE_THROTTLED -> "none"
      [] kind = EV_UPDATE_REQ -> "request"
      [] OTHER -> "none"

\* C21: the dispatch of an event of the data object sends (acknowledged iff
\* the object's acked flag is set), requests or does nothing as the table
\* says for the event kind and the telemetry mode; when it does nothing it
\* makes no protocol call and leaves txErrors and txRetries as they were.
C21_OutboundActionTable ==
    (lastDispatch.valid /\ lastDispatch.ev.obj = DataObj) =>
        /\ lastDispatch.act.kind =
               TableAction(lastDispatch.ev.event, metadata[DataObj].telemetryUpdateMode)
        /\ lastDispatch.act.kind = "send" =>
               lastDispatch.act.acked = metadata[DataObj].telemetryAcked
        /\ lastDispatch.act.kind # "none" => lastDispatch.act.calls >= 1
        /\ lastDispatch.act.kind = "none" =>
               /\ lastDispatch.act.calls = 0
               /\ txErrors = lastDispatch.preErrors
               /\ txRetries = lastDispatch.preRetries

\* A periodic update of a throttled object was dispatched with counters
\* standing above zero: nothing was sent.
C21_Witness ==
    /\ lastDispatch.valid
    /\ lastDispatch.ev.obj = DataObj
    /\ lastDispatch.ev.event = EV_UPDATED_PERIODIC
    /\ metadata[DataObj].telemetryUpdateMode = UPDATEMODE_THROTTLED
    /\ lastDispatch.act.kind = "none"
    /\ lastDispatch.preRetries > 0
    /\ lastDispatch.preErrors > 0

\* Whether the table has the event logged, for its kind and the logging mode.
TableLogs(kind, mode) ==
    CASE kind = EV_LOGGING_MANUAL -> TRUE
      [] kind = EV_LOGGING_PERIODIC -> mode # UPDATEMODE_THROTTLED
      [] kind = EV_UPDATED -> mode \in {UPDATEMODE_ONCHANGE, UPDATEMODE_THROTTLED}
      [] OTHER -> FALSE

\* C22: the dispatch of an event of the data object writes to the log
\* exactly when the table says so for the event kind and the logging mode,
\* whether its send or request succeeded, failed after its retries or was
\* not attempted.
C22_LoggingDecisionTable ==
    (lastDispatch.valid /\ lastDispatch.ev.obj = DataObj) =>
        (lastDispatch.logged # <<>>
            <=> TableLogs(lastDispatch.ev.event, metadata[DataObj].loggingUpdateMode))

\* A change was logged although its send failed after the retries.
C22_Witness ==
    /\ lastDispatch.valid
    /\ lastDispatch.ev = Event(DataObj, 0, EV_UPDATED)
    /\ lastDispatch.act.kind = "send"
    /\ lastDispatch.act.success = -1
    /\ lastDispatch.act.retries = MAX_RETRIES
    /\ lastDispatch.logged = <<0>>

\* ------------------------------------------------------------------------
\* Specification SpecSpecial: the dispatch engine of the main channel fed
\* the events of the statistics timer and of GCSTelemetryStats, of every
\* kind and instance id, from every local and peer status, with the clock
\* standing still. On the GCSTelemetryStats path the metadata local is never written, so the
\* logging mode read from it is any value.

InitSpecial ==
    \E status \in StatusValues, peer \in StatusValues :
        StartedWith(Metadata(UPDATEMODE_MANUAL, UPDATEMODE_MANUAL, FALSE), FALSE, 1,
                    status, peer)

SpecialEvents ==
    {Event(o, i, e) : o \in {NullObj, GcsObj}, i \in {0, UAVOBJ_ALL_INSTANCES},
                      e \in EventKinds \cup {EV_NONE}}

SpecialDispatch ==
    \E ev \in SpecialEvents, uninit \in UpdateModes :
        /\ processObjEvent("telem", ev, AllSucceed, uninit)
        /\ UNCHANGED <<now, objVars, queues, gcsStats, task, txHist>>

NextSpecial ==
    \/ PeerSetsStatus({})
    \/ SpecialDispatch

SpecSpecial == InitSpecial /\ [][NextSpecial]_vars

\* C23: the dispatch of an event of the statistics timer or of
\* GCSTelemetryStats, of any kind and instance id, makes no protocol call,
\* writes nothing to the log and reconciles no object.
C23_SpecialEventsNoTraffic ==
    (lastDispatch.valid /\ lastDispatch.ev.obj \in {NullObj, GcsObj}) =>
        /\ lastDispatch.act.kind = "none"
        /\ lastDispatch.logged = <<>>
        /\ lastDispatch.reconciled = <<>>

\* ------------------------------------------------------------------------
\* Specification SpecMask: the main channel's dispatch engine fed the events
\* of a data object and of its meta-object, for every pair of modes and
\* both values of the priority flag; the logging period differs from the
\* telemetry period.

InitMask ==
    \E tm \in UpdateModes, lm \in UpdateModes, prio \in BOOLEAN :
        Started([Metadata(tm, lm, FALSE) EXCEPT !.loggingUpdatePeriod = TickMs],
                prio, 1, STATUS_DISCONNECTED)

DispatchMask ==
    \E ev \in {Event(o, 0, e) : o \in {DataObj, MetaObj}, e \in EventKinds} :
        /\ processObjEvent("telem", ev, AllSucceed, UPDATEMODE_MANUAL)
        /\ UNCHANGED <<now, objVars, queues, gcsStats, task, txHist>>

NextMask ==
    \/ Tick({})
    \/ DispatchMask

SpecMask == InitMask /\ [][NextMask]_vars

\* The telemetry masks and timer periods the table allows for a mode; a
\* throttled object has one of two masks, and its timer runs at its period.
TelemetryTable(md) ==
    CASE md.telemetryUpdateMode = UPDATEMODE_ONCHANGE ->
            {[mask |-> {EV_UPDATED, EV_UPDATED_MANUAL, EV_UPDATE_REQ}, period |-> 0]}
      [] md.telemetryUpdateMode = UPDATEMODE_MANUAL ->
            {[mask |-> {EV_UPDATED_MANUAL, EV_UPDATE_REQ}, period |-> 0]}
      [] md.telemetryUpdateMode = UPDATEMODE_PERIODIC ->
            {[mask |-> {EV_UPDATED_PERIODIC, EV_UPDATED_MANUAL, EV_UPDATE_REQ},
              period |-> md.telemetryUpdatePeriod]}
      [] md.telemetryUpdateMode = UPDATEMODE_THROTTLED ->
            {[mask |-> {k, EV_UPDATED_MANUAL, EV_UPDATE_REQ},
              period |-> md.telemetryUpdatePeriod] : k \in {EV_UPDATED, EV_UPDATED_PERIODIC}}

TableLogging(md) ==
    CASE md.loggingUpdateMode = UPDATEMODE_ONCHANGE ->
            {[mask |-> {EV_UPDATED, EV_LOGGING_MANUAL}, period |-> 0]}
      [] md.loggingUpdateMode = UPDATEMODE_MANUAL ->
            {[mask |-> {EV_LOGGING_MANUAL}, period |-> 0]}
      [] md.loggingUpdateMode = UPDATEMODE_PERIODIC ->
            {[mask |-> {EV_LOGGING_PERIODIC, EV_LOGGING_MANUAL},
              period |-> md.loggingUpdatePeriod]}
      [] md.loggingUpdateMode = UPDATEMODE_THROTTLED ->
            {[mask |-> {k, EV_LOGGING_MANUAL},
              period |-> md.loggingUpdatePeriod] : k \in {EV_UPDATED, EV_LOGGING_PERIODIC}}

\* The periodic entries of the main channel for the data object.
DataTimers(event) ==
    {timers["telem"][i] : i \in {j \in 1..Len(timers["telem"]) :
        timers["telem"][j].obj = DataObj /\ timers["telem"][j].event = event}}

\* C24: the data object's subscription on the main channel is the union of
\* the telemetry mask and the logging mask of its modes, on the priority
\* queue if the object is a priority object and on the normal queue
\* otherwise, with nothing on the other queue; its telemetry and logging
\* timers run on that queue with the periods of the table.
C24_ReconcileMaskTable ==
    LET md == metadata[DataObj]
        queue == IF isPriority[DataObj] THEN "priorityQueue" ELSE "mainQueue"
    IN  \E t \in TelemetryTable(md), l \in TableLogging(md) :
            /\ connections["telem"][DataObj][queue] = t.mask \cup l.mask
            /\ \A q \in Queues \ {queue} : connections["telem"][DataObj][q] = {}
            /\ \A tm \in DataTimers(EV_UPDATED_PERIODIC) :
                   tm.queue = queue /\ tm.period = t.period
            /\ \A tm \in DataTimers(EV_LOGGING_PERIODIC) :
                   tm.queue = queue /\ tm.period = l.period
            /\ Cardinality(DataTimers(EV_UPDATED_PERIODIC)) = 1
            /\ Cardinality(DataTimers(EV_LOGGING_PERIODIC)) = 1

\* A priority object sent on change and logged periodically was reconciled
\* again after start-up, and time has passed since.
C24_Witness ==
    /\ isPriority[DataObj]
    /\ metadata[DataObj].telemetryUpdateMode = UPDATEMODE_ONCHANGE
    /\ metadata[DataObj].loggingUpdateMode = UPDATEMODE_PERIODIC
    /\ lastDispatch.valid
    /\ lastDispatch.reconciled = <<<<DataObj, EV_NONE>>>>
    /\ now > 0
    /\ connections["telem"][DataObj]["priorityQueue"] =
           {EV_UPDATED, EV_UPDATED_MANUAL, EV_UPDATE_REQ,
            EV_LOGGING_PERIODIC, EV_LOGGING_MANUAL}

\* ------------------------------------------------------------------------
\* Reconcile calls of the dispatch

\* The data object is in telemetry or logging mode THROTTLED.
Throttled ==
    \/ metadata[DataObj].telemetryUpdateMode = UPDATEMODE_THROTTLED
    \/ metadata[DataObj].loggingUpdateMode = UPDATEMODE_THROTTLED

\* C25: the dispatch of a meta-object event first reconciles the linked
\* object with trigger EV_NONE, after which a THROTTLED linked object holds
\* UPDATED in its mask and its timer runs at its period; the dispatch of a
\* data-object event reconciles that object, with the event's kind, exactly
\* when its telemetry or logging mode is THROTTLED, and otherwise leaves
\* the connections and the timers as they were.
C25_ReconcileAfterDispatch ==
    /\ [](lastDispatch.valid =>
            IF UAVObjIsMetaobject(lastDispatch.ev.obj)
            THEN /\ lastDispatch.reconciled # <<>>
                 /\ Head(lastDispatch.reconciled) = <<DataObj, EV_NONE>>
                 /\ metadata[DataObj].telemetryUpdateMode = UPDATEMODE_THROTTLED =>
                        /\ EV_UPDATED \in DataMask
                        /\ \A i \in UpdateTimers :
                               timers["telem"][i].period =
                                   metadata[DataObj].telemetryUpdatePeriod
            ELSE /\ lastDispatch.reconciled # <<>> <=> Throttled
                 /\ \A i \in 1..Len(lastDispatch.reconciled) :
                        lastDispatch.reconciled[i] = <<DataObj, lastDispatch.ev.event>>)
    /\ [][(lastDispatch'.valid /\ lastDispatch'.ev.obj = DataObj /\ ~Throttled)
              => UNCHANGED <<connections, timers>>]_vars

\* A throttled data object that had closed its subscription after a change
\* holds UPDATED again after an event of its meta-object.
C25_Witness ==
    /\ metadata[DataObj].telemetryUpdateMode = UPDATEMODE_THROTTLED
    /\ phase = "cooldown"
    /\ lastDispatch.valid
    /\ lastDispatch.ev.obj = MetaObj
    /\ EV_UPDATED \in DataMask

\* ------------------------------------------------------------------------
\* Specification SpecFold: the statistics timer's events on the main
\* channel between manual sends that fail or succeed and link traffic, from
\* every local status, with the clock standing still (no timeout).

FoldDispatch ==
    /\ flightStats.TxFailures <= MaxCum
    /\ flightStats.TxRetries <= MaxCum
    /\ \E outcomes \in Outcomes :
           processObjEvent("telem", ManualSend, outcomes, UPDATEMODE_MANUAL)
    /\ UNCHANGED <<now, objVars, queues, gcsStats, task, txHist>>

NextFold ==
    \/ \E ch \in Chans : Traffic(ch)
    \/ PeerSetsStatus({})
    \/ FoldDispatch
    \/ StatsDispatch

SpecFold == InitFn /\ [][NextFold]_vars

\* A step that is a call of updateTelemetryStats from the statistics event.
EvaluationStep ==
    /\ lastDispatch'.valid
    /\ lastDispatch'.ev.obj = NullObj
    /\ gcsStats' = gcsStats
    /\ utalkStats' = [c \in Chans |-> ZeroStats]

\* C26: a call of updateTelemetryStats leaves txErrors and txRetries at
\* zero; entered with local status CONNECTED it adds them, and the bytes and
\* errors the connections counted, to the cumulative fields of the record;
\* entered with any other status it sets the cumulative fields to zero.
C26_FoldAndReset ==
    [][EvaluationStep =>
          /\ txErrors' = 0
          /\ txRetries' = 0
          /\ IF flightStats.Status = STATUS_CONNECTED
             THEN /\ flightStats'.TxFailures = flightStats.TxFailures + txErrors
                  /\ flightStats'.TxRetries = flightStats.TxRetries + txRetries
                  /\ flightStats'.TxBytes = flightStats.TxBytes + SumStats(utalkStats).txBytes
                  /\ flightStats'.RxBytes = flightStats.RxBytes + SumStats(utalkStats).rxBytes
                  /\ flightStats'.RxFailures =
                         flightStats.RxFailures + SumStats(utalkStats).rxErrors
                  /\ flightStats'.RxSyncErrors =
                         flightStats.RxSyncErrors + SumStats(utalkStats).rxSyncErrors
                  /\ flightStats'.RxCrcErrors =
                         flightStats.RxCrcErrors + SumStats(utalkStats).rxCrcErrors
             ELSE /\ flightStats'.TxFailures = 0 /\ flightStats'.TxRetries = 0
                  /\ flightStats'.TxBytes = 0 /\ flightStats'.RxBytes = 0
                  /\ flightStats'.RxFailures = 0 /\ flightStats'.RxSyncErrors = 0
                  /\ flightStats'.RxCrcErrors = 0]_vars

\* A call entered with status CONNECTED has folded retries and an error
\* into a record that already held some.
C26_Witness ==
    /\ lastEval.valid
    /\ lastEval.pre = STATUS_CONNECTED
    /\ lastDispatch.valid
    /\ lastDispatch.ev.obj = NullObj
    /\ lastDispatch.preRetries > 0
    /\ lastDispatch.preErrors > 0
    /\ flightStats.TxRetries > lastDispatch.preRetries
    /\ flightStats.TxFailures > lastDispatch.preErrors
    /\ txRetries = 0
    /\ txErrors = 0

\* ------------------------------------------------------------------------
\* Specification SpecGate: the events of GCSTelemetryStats on the main
\* channel, between manual sends that fail or succeed, link traffic and the
\* statistics timer's events, from every local and peer status.

GcsDispatch ==
    \E uninit \in UpdateModes :
        /\ processObjEvent("telem", Event(GcsObj, 0, EV_UPDATED), AllSucceed, uninit)
        /\ UNCHANGED <<now, objVars, queues, gcsStats, task, txHist>>

NextGate ==
    \/ \E ch \in Chans : Traffic(ch)
    \/ PeerSetsStatus({})
    \/ FoldDispatch
    \/ StatsDispatch
    \/ GcsDispatch

SpecGate == InitSpecial /\ [][NextGate]_vars

\* A step that is the dispatch of a GCSTelemetryStats event.
GcsStep ==
    /\ lastDispatch'.valid
    /\ lastDispatch'.ev.obj = GcsObj
    /\ gcsStats' = gcsStats
    /\ utalkStats' = utalkStats \/ utalkStats' = [c \in Chans |-> ZeroStats]

\* C27: the dispatch of a GCSTelemetryStats event calls
\* updateTelemetryStats exactly when the local or the peer status is not
\* CONNECTED; when both are CONNECTED it leaves the FlightTelemetryStats
\* record, txErrors, txRetries and timeOfLastObjectUpdate as they were.
C27_HandshakeGating ==
    [][GcsStep =>
          IF flightStats.Status # STATUS_CONNECTED \/ gcsStats # STATUS_CONNECTED
          THEN /\ lastDispatch'.evaluated
               /\ lastEval'.valid
               /\ lastEval'.pre = flightStats.Status
               /\ lastEval'.peer = gcsStats
               /\ txErrors' = 0
               /\ txRetries' = 0
          ELSE /\ ~lastDispatch'.evaluated
               /\ UNCHANGED <<flightStats, txErrors, txRetries, timeOfLastObjectUpdate,
                              utalkStats, lastEval>>]_vars

\* A GCSTelemetryStats event was dispatched with both sides CONNECTED and
\* the counters of the period above zero: they still are.
C27_Witness ==
    /\ lastDispatch.valid
    /\ lastDispatch.ev.obj = GcsObj
    /\ ~lastDispatch.evaluated
    /\ flightStats.Status = STATUS_CONNECTED
    /\ gcsStats = STATUS_CONNECTED
    /\ txRetries > 0
    /\ txErrors > 0

\* ------------------------------------------------------------------------
\* No active transport

\* A step that is a dispatch on the secondary channel.
RadioDispatchStep ==
    /\ lastDispatch'.valid
    /\ lastDispatch'.ch = "radio"
    /\ rxTask' = rxTask
    /\ usbAvailable' = usbAvailable

\* C28: a send or request dispatched on the secondary channel while the
\* port its transmit function resolves is 0 fails at every attempt, is
\* counted in txRetries and txErrors, and leaves 0 as the remembered port;
\* a receive iteration that starts with the remembered port at 0 only
\* sleeps and returns to the top of the loop without a transmission of the
\* decoder, and one that starts with a port receives on it.
C28_NoActiveTransport ==
    /\ [][(RadioDispatchStep /\ lastDispatch'.act.kind # "none"
              /\ RadioOutputPort(build, usbAvailable) = NoPort)
             => /\ lastDispatch'.act.success = -1
                /\ lastDispatch'.act.calls = MAX_RETRIES
                /\ txRetries' = txRetries + MAX_RETRIES
                /\ txErrors' = txErrors + 1
                /\ telemetryPort'["radio"] = NoPort]_vars
    /\ [][(rxTask["radio"].pc = "top" /\ rxTask'["radio"] # rxTask["radio"])
             => /\ rxTask'["radio"].pc =
                       IF telemetryPort["radio"] = NoPort THEN "delay" ELSE "receive"
                /\ rxTask'["radio"].inputPort = telemetryPort["radio"]]_vars
    /\ [][(rxTask["radio"].pc = "delay" /\ rxTask'["radio"] # rxTask["radio"])
             => /\ rxTask'["radio"].pc = "top"
                /\ UNCHANGED <<telemetryPort, outputPort>>]_vars

\* In a build without the radio modem and with USB unplugged a send of the
\* secondary channel has failed both attempts, and the receive task sleeps.
C28_Witness ==
    /\ "PIOS_INCLUDE_RFM22B" \notin build
    /\ lastDispatch.valid
    /\ lastDispatch.ch = "radio"
    /\ lastDispatch.act.kind = "send"
    /\ lastDispatch.act.success = -1
    /\ txErrors = lastDispatch.preErrors + 1
    /\ outputPort.called
    /\ outputPort.port = NoPort
    /\ telemetryPort["radio"] = NoPort
    /\ rxTask["radio"].pc = "delay"

\* ------------------------------------------------------------------------
\* Specification SpecEdge: both transmit tasks evaluate the connection state
\* machine step by step (read and fold, reset, publish), each on its own
\* copies of the two records, while the ground station sets its status.
\* An evaluation starts on the periodic event (lines 440-442) or, while the
\* link is not connected on both sides, on the GCSTelemetryStats event
\* (lines 443-445, 741-751).

ConcTrigger(ch) ==
    /\ gcsTelemetryStatsUpdated(flightStats.Status, gcsStats)
    /\ ConcStatsFold(ch)

NextEdge ==
    \/ PeerSetsStatus({})
    \/ \E ch \in Chans :
           \/ ConcStatsFold(ch)
           \/ ConcTrigger(ch)
           \/ ConcStatsReset(ch)
           \/ ConcStatsPublish(ch)

SpecEdge == InitStats /\ [][NextEdge]_vars

\* The edges of the connection state machine.
StatusEdges ==
    {<<STATUS_DISCONNECTED, STATUS_HANDSHAKEACK>>,
     <<STATUS_HANDSHAKEACK, STATUS_CONNECTED>>,
     <<STATUS_HANDSHAKEACK, STATUS_DISCONNECTED>>,
     <<STATUS_CONNECTED, STATUS_DISCONNECTED>>}

\* C29: under every interleaving of the two transmit tasks' evaluations,
\* each reading the records, computing and writing back as separate steps,
\* the status stored in FlightTelemetryStats changes only along the edges
\* DISCONNECTED to HANDSHAKEACK, HANDSHAKEACK to CONNECTED, HANDSHAKEACK to
\* DISCONNECTED and CONNECTED to DISCONNECTED.
C29_StatusEdgesInterleaved ==
    [][flightStats'.Status # flightStats.Status
           => <<flightStats.Status, flightStats'.Status>> \in StatusEdges]_vars

\* The same edges when every evaluation is one step (specification SpecFn
\* started from a status of the machine): no write leaves them.
C29_StatusEdgesAtomic ==
    [][(flightStats.Status \in {STATUS_DISCONNECTED, STATUS_HANDSHAKEACK, STATUS_CONNECTED}
            /\ flightStats'.Status # flightStats.Status)
           => <<flightStats.Status, flightStats'.Status>> \in StatusEdges]_vars

\* ------------------------------------------------------------------------
\* Specification SpecThrottle: the transmit loop of the main channel serving
\* a data object in telemetry mode THROTTLED whose configured period is 0 or
\* PeriodMs; the object is set again and again, its metadata never. Times
\* are kept relative to the present, so that the clock never stops: a clock
\* step brings every armed entry one step nearer instead of advancing now.

InitThrottle ==
    \E p \in {0, PeriodMs}, acked \in BOOLEAN, prio \in BOOLEAN :
        Started([Metadata(UPDATEMODE_THROTTLED, UPDATEMODE_MANUAL, acked)
                     EXCEPT !.telemetryUpdatePeriod = p],
                prio, 1, STATUS_DISCONNECTED)

\* Time passes by one clock step while the transmit task of channel ch is
\* idle and no periodic entry of the channel is due.
TickRelative(ch) ==
    /\ Idle({ch})
    /\ \A i \in 1..Len(timers[ch]) : timers[ch][i].period > 0 => timers[ch][i].due > now
    /\ timers' = [timers EXCEPT ![ch] =
                      [i \in 1..Len(@) |->
                          IF @[i].period > 0 THEN [@[i] EXCEPT !.due = @ - TickMs]
                          ELSE @[i]]]
    /\ UNCHANGED <<now, objVars, portVars, connections, asserted, queues, cntVars,
                   linkVars, envVars, task, histVars>>

NextThrottle ==
    \/ TickRelative("telem")
    \/ TimerFire("telem")
    \/ ObjectChanged({"telem"}, DataObj, 0, EV_UPDATED)
    \/ TxStep("telem")

\* The transmit task is scheduled again and again (lines 85-88: the tasks
\* share one priority) and a due periodic entry is served; time passes
\* whenever the task is found waiting again and again.
SpecThrottle ==
    /\ InitThrottle
    /\ [][NextThrottle]_vars
    /\ WF_vars(TxStep("telem"))
    /\ WF_vars(TimerFire("telem"))
    /\ SF_vars(TickRelative("telem"))

\* C30: a data object in telemetry mode THROTTLED whose subscription is
\* periodic-only is subscribed to UPDATED again later, whatever its
\* configured period (0 included) and with no metadata change.
C30_ThrottleRecovery ==
    PeriodicOnly(DataMask) ~> (EV_UPDATED \in DataMask)

\* The same for the objects whose configured period is not 0.
C30_ThrottleRecoveryArmed ==
    (PeriodicOnly(DataMask) /\ metadata[DataObj].telemetryUpdatePeriod > 0)
        ~> (EV_UPDATED \in DataMask)

\* ------------------------------------------------------------------------
\* Cooldown started by manual and requested events

\* A step that dispatches an event of the given kinds for the data object.
DataDispatchStep(kinds) ==
    /\ lastDispatch'.valid
    /\ lastDispatch'.ev.obj = DataObj
    /\ lastDispatch'.ev.event \in kinds

\* The cooldown of the data object for the logging modes lms, as a step: a
\* dispatch of UPDATED_MANUAL or UPDATE_REQ met with UPDATED subscribed
\* leaves the subscription periodic-only, and a periodic-only subscription
\* stays so over every dispatch but that of UPDATED_PERIODIC.
CooldownStarts(lms) ==
    (/\ metadata[DataObj].telemetryUpdateMode = UPDATEMODE_THROTTLED
     /\ metadata[DataObj].loggingUpdateMode \in lms)
        => /\ (EV_UPDATED \in DataMask
                  /\ DataDispatchStep({EV_UPDATED_MANUAL, EV_UPDATE_REQ}))
                 => PeriodicOnly(DataMask')
           /\ (PeriodicOnly(DataMask)
                  /\ DataDispatchStep(EventKinds \ {EV_UPDATED_PERIODIC}))
                 => PeriodicOnly(DataMask')

\* C31: for a data object in telemetry mode THROTTLED whose subscription
\* holds UPDATED, the processing of an UPDATED_MANUAL or UPDATE_REQ event
\* leaves the subscription periodic-only (UPDATED is not delivered), and it
\* stays so until an UPDATED_PERIODIC event is processed.
C31_ManualStartsCooldown == [][CooldownStarts(UpdateModes)]_vars

\* The same for the logging modes whose part of the mask never holds UPDATED.
C31_ManualStartsCooldownQuietLog ==
    [][CooldownStarts({UPDATEMODE_MANUAL, UPDATEMODE_PERIODIC})]_vars

\* ------------------------------------------------------------------------
\* Reconcile idempotence

\* What a reconcile call leaves behind on a channel: the subscription masks
\* per object and queue, and the periodic entries with their queues and
\* periods.
Installed(st) ==
    [connections |-> st.connections,
     entries |-> [i \in 1..Len(st.timers) |->
                     [obj |-> st.timers[i].obj, event |-> st.timers[i].event,
                      queue |-> st.timers[i].queue, period |-> st.timers[i].period]]]

\* The metadata values an object may hold when it is reconciled.
MetadataValues ==
    {[Metadata(tm, lm, FALSE) EXCEPT !.telemetryUpdatePeriod = tp,
                                     !.loggingUpdatePeriod = lp] :
        tm \in UpdateModes, lm \in UpdateModes,
        tp \in {0, PeriodMs}, lp \in {0, TickMs}}

\* Specification SpecIdem: the dispatch engine of the main channel, fed the
\* events of the data object and of its meta-object, for every pair of
\* update modes and both routings; the clock stands still.
NextIdem == DispatchMask

SpecIdem == InitMask /\ [][NextIdem]_vars

\* A step that dispatches an event for the data object while both its
\* modes are THROTTLED: it reconciles twice.
ReconciledTwiceStep ==
    /\ metadata[DataObj].telemetryUpdateMode = UPDATEMODE_THROTTLED
    /\ metadata[DataObj].loggingUpdateMode = UPDATEMODE_THROTTLED
    /\ DataDispatchStep(EventKinds)
    /\ Len(lastDispatch'.reconciled) = 2

\* C32: from every subscription state of the main channel, for every
\* non-meta object, metadata value and trigger kind, two updateObject calls
\* in a row with the same arguments leave the same masks, queues and timer
\* periods as one; and a dispatch that reconciles twice (both modes
\* THROTTLED) leaves what a single call would.
C32_ReconcileIdempotent ==
    /\ [](\A obj \in {DataObj, GcsObj} : \A md \in MetadataValues :
           \A kind \in EventKinds \cup {EV_NONE} :
              \E once \in {updateObject(SubState("telem"), obj, md, kind, now)} :
                  Installed(updateObject(once, obj, md, kind, now)) = Installed(once))
    /\ [][ReconciledTwiceStep =>
             \E once \in {updateObject(SubState("telem"), DataObj, metadata[DataObj],
                                        lastDispatch'.ev.event, now)} :
                 /\ connections'["telem"] = once.connections
                 /\ timers'["telem"] = once.timers]_vars

\* A dispatch of UPDATED for a priority object with both modes THROTTLED
\* has reconciled twice and left both parts of the subscription periodic.
C32_Witness ==
    /\ metadata[DataObj].telemetryUpdateMode = UPDATEMODE_THROTTLED
    /\ metadata[DataObj].loggingUpdateMode = UPDATEMODE_THROTTLED
    /\ isPriority[DataObj]
    /\ lastDispatch.valid
    /\ lastDispatch.ev = Event(DataObj, 0, EV_UPDATED)
    /\ lastDispatch.reconciled = <<<<DataObj, EV_UPDATED>>, <<DataObj, EV_UPDATED>>>>
    /\ EV_UPDATED_PERIODIC \in connections["telem"][DataObj]["priorityQueue"]
    /\ EV_LOGGING_PERIODIC \in connections["telem"][DataObj]["priorityQueue"]

====
